---- MODULE Spec2Model ----
(***************************************************************************)
(* oh-idk: Ed25519 request authentication (app/crypto.py, app/auth.py),    *)
(* the vouch store and its HTTP handlers (app/main.py, app/models.py) and  *)
(* the trust scorer (app/trust.py).                                        *)
(*                                                                         *)
(* Three specifications share the variables:                               *)
(*   SpecCrypto  the library functions of app/crypto.py applied to inputs  *)
(*               drawn by Init;                                            *)
(*   Spec        the service: register, vouch, revoke, trust query, clock; *)
(*   SpecTrust   calculate_trust_score applied to vouch graphs drawn by    *)
(*               Init.                                                     *)
(***************************************************************************)
EXTENDS Integers, Sequences, FiniteSets, TLC

VARIABLES
    now,         \* int(time.time()): the server clock, Unix seconds
    identities,  \* table identities: the set of registered public keys
    vouches,     \* table vouches: a set of Vouch rows
    call,        \* the pending call of a library function and its arguments
    resp         \* the outcome of the last operation

vars == <<now, identities, vouches, call, resp>>

----------------------------------------------------------------------------
(* Bounds *)

NumKeys == 2            \* keypairs generated by generate_keypair
Now0 == 1000            \* the clock value of the first state

----------------------------------------------------------------------------
(* Python outcomes: a call returns a value or raises an exception.         *)

Ret(v) == [raised |-> FALSE, exc |-> "", value |-> v]
Raise(e) == [raised |-> TRUE, exc |-> e, value |-> FALSE]

\* The exception classes that occur and their base classes (the class itself
\* included), as Python's except clause matches them.
Bases(e) ==
    CASE e = "binascii.Error" -> {"binascii.Error", "ValueError", "Exception"}
      [] e = "ValueError"     -> {"ValueError", "Exception"}
      [] e = "BadSignature"   -> {"BadSignature", "CryptoError", "Exception"}
      [] e = "AttributeError" -> {"AttributeError", "Exception"}
      [] e = "IntegrityError" -> {"IntegrityError", "Exception"}
      [] OTHER                -> {e, "Exception"}

Abs(x) == IF x < 0 THEN -x ELSE x

----------------------------------------------------------------------------
(* Byte strings and their base64 text.  A byte string is described by its   *)
(* length and by what it holds: the verify key or the seed of keypair       *)
(* `key`, the Ed25519 signature of keypair `key` over `msg`, or other bytes *)
(* (key = 0).                                                               *)

KeyLen == 32            \* an Ed25519 public key or seed, in bytes
SigLen == 64            \* an Ed25519 signature, in bytes

KeyPairs == 1..NumKeys

Bytes(kind, len, key, msg) == [kind |-> kind, len |-> len, key |-> key, msg |-> msg]
VerifyKeyBytes(k) == Bytes("verify_key", KeyLen, k, "")
SeedBytes(k) == Bytes("seed", KeyLen, k, "")
OtherBytes(len) == Bytes("other", len, 0, "")

\* A str argument that is base64 text: ok says whether base64.b64decode
\* accepts it, bytes is what it decodes to.
b64encode(bytes) == [ok |-> TRUE, bytes |-> bytes]
NonBase64Text == [ok |-> FALSE, bytes |-> OtherBytes(0)]   \* "not-valid-base64!!!"
EmptyText == b64encode(OtherBytes(0))                      \* ""
ShortText == b64encode(OtherBytes(3))                      \* "AAAA"
CorruptKeyText == b64encode(OtherBytes(KeyLen))            \* 32 bytes, no keypair's key
JunkSigText == b64encode(OtherBytes(SigLen))               \* 64 bytes, no signature

\* base64.b64decode(s): the bytes, or binascii.Error.
b64decode(text) == IF text.ok THEN Ret(text.bytes) ELSE Raise("binascii.Error")

\* generate_keypair(): the k-th keypair drawn, (public_b64, private_b64).
generate_keypair(k) == <<b64encode(VerifyKeyBytes(k)), b64encode(SeedBytes(k))>>
PublicKey(k) == generate_keypair(k)[1]
PrivateKey(k) == generate_keypair(k)[2]

\* nacl.signing.SigningKey(seed).sign(message).signature: Ed25519 is
\* deterministic, the signature is fixed by the seed and the message.
Ed25519Sign(seed, message) == Bytes("sig", SigLen, seed.key, message)

\* nacl.signing.VerifyKey(key): ValueError unless the key has 32 bytes.
VerifyKeyCtor(bytes) == IF bytes.len = KeyLen THEN Ret(bytes) ELSE Raise("ValueError")

\* VerifyKey.verify(message, signature): returns the message when the
\* signature is this key's signature of the message, else BadSignature
\* (ValueError for a signature that is not 64 bytes long).
Ed25519Verify(vk, message, sig) ==
    IF sig.len # SigLen THEN Raise("ValueError")
    ELSE IF /\ vk.kind = "verify_key"
            /\ sig.kind = "sig"
            /\ sig.key = vk.key
            /\ sig.msg = message
         THEN Ret(TRUE)
         ELSE Raise("BadSignature")

----------------------------------------------------------------------------
(* app/crypto.py *)

\* sign_message(private_key_b64, message)
sign_message(private_key_b64, message) ==
    LET private_key_bytes == b64decode(private_key_b64).value
        signature == Ed25519Sign(private_key_bytes, message)
    IN  b64encode(signature)

\* A try block that builds the key and never calls verify.
verify_signature_try_no_verify(public_key_b64, message, signature_b64) ==
    LET public_key_bytes == b64decode(public_key_b64)
        signature_bytes == b64decode(signature_b64)
    IN  IF public_key_bytes.raised THEN public_key_bytes
        ELSE IF signature_bytes.raised THEN signature_bytes
        ELSE LET verify_key == VerifyKeyCtor(public_key_bytes.value)
             IN  IF verify_key.raised THEN verify_key ELSE Ret(TRUE)

\* The try block of verify_signature: True, or the exception raised in it.
verify_signature_try(public_key_b64, message, signature_b64) ==
    LET public_key_bytes == b64decode(public_key_b64)
        signature_bytes == b64decode(signature_b64)
    IN  IF public_key_bytes.raised THEN public_key_bytes
        ELSE IF signature_bytes.raised THEN signature_bytes
        ELSE LET verify_key == VerifyKeyCtor(public_key_bytes.value)
             IN  IF verify_key.raised THEN verify_key
                 ELSE Ed25519Verify(verify_key.value, message, signature_bytes.value)

\* A handler that catches BadSignature alone.
verify_signature_except_narrow == {"BadSignature"}

\* except (BadSignature, ValueError, Exception): return False
verify_signature_except == {"BadSignature", "ValueError", "Exception"}

verify_signature_catches(exc) == Bases(exc) \cap verify_signature_except # {}

\* verify_signature(public_key_b64, message, signature_b64)
verify_signature(public_key_b64, message, signature_b64) ==
    LET r == verify_signature_try(public_key_b64, message, signature_b64)
    IN  IF r.raised /\ verify_signature_catches(r.exc) THEN Ret(FALSE) ELSE r

\* str(timestamp) of an int, as the f-string formats it.
Digit(d) ==
    CASE d = 0 -> "0" [] d = 1 -> "1" [] d = 2 -> "2" [] d = 3 -> "3" [] d = 4 -> "4"
      [] d = 5 -> "5" [] d = 6 -> "6" [] d = 7 -> "7" [] d = 8 -> "8" [] d = 9 -> "9"

RECURSIVE Decimal(_)
Decimal(n) ==
    IF n < 0 THEN "-" \o Decimal(-n)
    ELSE IF n < 10 THEN Digit(n)
    ELSE Decimal(n \div 10) \o Digit(n % 10)

\* method.upper(), on the method names in use.
upper(method) == IF method = "post" THEN "POST" ELSE method

\* A message that leaves the body out.
request_message_without_body(method, path, timestamp, body) ==
    method \o ":" \o path \o ":" \o Decimal(timestamp) \o ":"

\* message = f"{method}:{path}:{timestamp}:{body}"
request_message(method, path, timestamp, body) ==
    method \o ":" \o path \o ":" \o Decimal(timestamp) \o ":" \o body

\* create_request_signature(private_key_b64, method, path, timestamp, body)
create_request_signature(private_key_b64, method, path, timestamp, body) ==
    sign_message(private_key_b64, request_message(method, path, timestamp, body))

DefaultMaxAge == 300

\* A freshness test that bounds the age of a request but not how far ahead
\* of the clock its timestamp is.
timestamp_fresh_past_only(current_time, timestamp, max_age_seconds) ==
    ~(current_time - timestamp > max_age_seconds)

\* The freshness test of verify_request_signature.
timestamp_fresh(current_time, timestamp, max_age_seconds) ==
    ~(Abs(current_time - timestamp) > max_age_seconds)

\* A verify_request_signature that verifies the signature first and looks at
\* the timestamp afterwards.
verify_request_signature_signature_first(current_time, public_key_b64, method, path, timestamp, signature_b64, body, max_age_seconds) ==
    LET is_valid == verify_signature(public_key_b64, request_message(method, path, timestamp, body), signature_b64)
    IN  IF is_valid # Ret(TRUE)
        THEN [out |-> is_valid, steps |-> <<"build_message", "verify_signature">>]
        ELSE [out |-> Ret(timestamp_fresh(current_time, timestamp, max_age_seconds)),
              steps |-> <<"build_message", "verify_signature", "check_timestamp">>]

\* verify_request_signature(public_key_b64, method, path, timestamp,
\*                          signature_b64, body, max_age_seconds)
\* The result carries the steps taken, in order.
verify_request_signature(current_time, public_key_b64, method, path, timestamp, signature_b64, body, max_age_seconds) ==
    IF ~timestamp_fresh(current_time, timestamp, max_age_seconds)
    THEN [out |-> Ret(FALSE), steps |-> <<"check_timestamp">>]
    ELSE [out |-> verify_signature(public_key_b64,
                                   request_message(method, path, timestamp, body),
                                   signature_b64),
          steps |-> <<"check_timestamp", "build_message", "verify_signature">>]

\* is_valid_public_key(public_key_b64)
is_valid_public_key(public_key_b64) ==
    LET key_bytes == b64decode(public_key_b64)
    IN  IF key_bytes.raised THEN FALSE
        ELSE IF key_bytes.value.len # KeyLen THEN FALSE
        ELSE ~VerifyKeyCtor(key_bytes.value).raised

----------------------------------------------------------------------------
(* SpecCrypto: the functions of app/crypto.py applied to drawn inputs.     *)
(* A call is drawn by Init; a client signs (SignRequest, SignMessage) and  *)
(* the verifier is applied to the arguments presented to it, which may     *)
(* differ from what was signed.                                            *)

NoCall == [op |-> "none", stage |-> "none"]
NoResp == [op |-> "none"]

\* Method names as a caller may supply them, one of them in lower case.
Methods == {"POST", "GET", "post"}
Paths == {"/vouch", "/register"}
Bodies == {"", "{}"}
Messages == {"", "Hello, World!", "Wrong message"}

CustomMaxAge == 60
MaxAges == {DefaultMaxAge, CustomMaxAge}

\* Timestamps around the edges of each freshness window, relative to the clock.
TsOffsets == UNION {{-(m + 1), -m, -(m - 1), 0, m - 1, m, m + 1} : m \in MaxAges}

\* A path that ends in a colon and a number, and a body that begins with a
\* number and a colon: no field is escaped or checked for colons.
ColonPath(t0) == "/vouch:" \o Decimal(t0)
ColonBody(t0) == Decimal(t0) \o ":"

RequestTuples(t0) ==
    [method : Methods, path : Paths \cup {ColonPath(t0)}, body : Bodies \cup {ColonBody(t0)},
     timestamp : {t0 + d : d \in TsOffsets}]

\* The number of fields in which two request tuples differ.
FieldsChanged(a, b) ==
    Cardinality({f \in {"method", "path", "body", "timestamp"} : a[f] # b[f]})

PublicKeyTexts == {PublicKey(k) : k \in KeyPairs} \cup {NonBase64Text, EmptyText, ShortText, CorruptKeyText}
MalformedSignatureTexts == {NonBase64Text, EmptyText, ShortText, JunkSigText}

\* A request signed by keypair `signer` over `signed`, verified as `sent`,
\* which differs from `signed` in at most one field, or in path and body.
SignedRequestCalls(t0, s) ==
    {[op |-> "verify_request_signature", stage |-> "unsigned", signer |-> k,
      signed |-> s, sent |-> r, pub |-> p, sig |-> EmptyText, max_age |-> m] :
        k \in KeyPairs,
        r \in {x \in RequestTuples(t0) : \/ FieldsChanged(s, x) <= 1
                                        \/ (x.method = s.method /\ x.timestamp = s.timestamp)},
        p \in PublicKeyTexts, m \in MaxAges}

\* A request that carries a signature text nobody signed.
UnsignedRequestCalls(t0) ==
    {[op |-> "verify_request_signature", stage |-> "signed", signer |-> 0,
      signed |-> r, sent |-> r, pub |-> p, sig |-> g, max_age |-> m] :
        r \in RequestTuples(t0), p \in PublicKeyTexts,
        g \in MalformedSignatureTexts, m \in MaxAges}

\* A message signed by keypair `signer`, verified as `message` under `pub`.
SignedMessageCalls ==
    {[op |-> "verify_signature", stage |-> "unsigned", signer |-> k,
      signed |-> s, message |-> msg, pub |-> p, sig |-> EmptyText] :
        k \in KeyPairs, s \in Messages, msg \in Messages, p \in PublicKeyTexts}

UnsignedMessageCalls ==
    {[op |-> "verify_signature", stage |-> "signed", signer |-> 0,
      signed |-> msg, message |-> msg, pub |-> p, sig |-> g] :
        msg \in Messages, p \in PublicKeyTexts, g \in MalformedSignatureTexts}

InitCrypto ==
    /\ now = Now0
    /\ identities = {}
    /\ vouches = {}
    /\ \/ \E s \in RequestTuples(now) : call \in SignedRequestCalls(now, s)
       \/ call \in UnsignedRequestCalls(now)
       \/ call \in SignedMessageCalls
       \/ call \in UnsignedMessageCalls
    /\ resp = NoResp

\* The client: create_request_signature with its private key.
SignRequest ==
    /\ call.op = "verify_request_signature"
    /\ call.stage = "unsigned"
    /\ call' = [call EXCEPT
                  !.sig = create_request_signature(PrivateKey(call.signer), call.signed.method, call.signed.path, call.signed.timestamp, call.signed.body),
                  !.stage = "signed"]
    /\ UNCHANGED <<now, identities, vouches, resp>>

\* The verifier: verify_request_signature on the presented request.
VerifyRequest ==
    /\ call.op = "verify_request_signature"
    /\ call.stage = "signed"
    /\ resp' = [op |-> "verify_request_signature",
                result |-> verify_request_signature(now, call.pub, call.sent.method, call.sent.path, call.sent.timestamp, call.sig, call.sent.body, call.max_age)]
    /\ call' = [call EXCEPT !.stage = "done"]
    /\ UNCHANGED <<now, identities, vouches>>

\* The client: sign_message with its private key.
SignMessage ==
    /\ call.op = "verify_signature"
    /\ call.stage = "unsigned"
    /\ call' = [call EXCEPT !.sig = sign_message(PrivateKey(call.signer), call.signed),
                            !.stage = "signed"]
    /\ UNCHANGED <<now, identities, vouches, resp>>

\* The verifier: verify_signature on the presented message.
VerifyMessage ==
    /\ call.op = "verify_signature"
    /\ call.stage = "signed"
    /\ resp' = [op |-> "verify_signature",
                result |-> verify_signature(call.pub, call.message, call.sig)]
    /\ call' = [call EXCEPT !.stage = "done"]
    /\ UNCHANGED <<now, identities, vouches>>

NextCrypto == SignRequest \/ VerifyRequest \/ SignMessage \/ VerifyMessage

SpecCrypto == InitCrypto /\ [][NextCrypto]_vars

----------------------------------------------------------------------------
(* Claims about app/crypto.py, checked under SpecCrypto.                   *)

\* sig is the signature that the private key matching pub produces over msg.
ValidSignatureOf(pub, msg, sig) ==
    \E k \in KeyPairs : pub = PublicKey(k) /\ sig = sign_message(PrivateKey(k), msg)

RequestDone == call.op = "verify_request_signature" /\ call.stage = "done"
MessageDone == call.op = "verify_signature" /\ call.stage = "done"

\* The request was signed by the keypair whose public key is presented.
OwnSignature == call.signer \in KeyPairs /\ call.pub = PublicKey(call.signer)

\* C1: verify_request_signature returns True iff |current_time - timestamp|
\* <= max_age_seconds and the signature is a valid signature under the
\* public key of the message METHOD:PATH:TIMESTAMP:BODY; with a correct
\* signature, timestamps now -/+ (max_age + 1) are rejected and timestamps
\* now and now -/+ (max_age - 1) are accepted.
C1_FreshAndValid ==
    RequestDone =>
        /\ resp.result.out \in {Ret(TRUE), Ret(FALSE)}
        /\ resp.result.out = Ret(TRUE) <=>
              /\ Abs(now - call.sent.timestamp) <= call.max_age
              /\ ValidSignatureOf(call.pub, request_message(call.sent.method, call.sent.path, call.sent.timestamp, call.sent.body), call.sig)
        /\ (OwnSignature /\ call.sent = call.signed) =>
              /\ call.sent.timestamp \in {now - call.max_age - 1, now + call.max_age + 1}
                    => resp.result.out = Ret(FALSE)
              /\ call.sent.timestamp \in {now, now - (call.max_age - 1), now + (call.max_age - 1)}
                    => resp.result.out = Ret(TRUE)

\* A correctly signed request, one second too far in the future for an
\* overridden max_age, was rejected.
C1_Witness ==
    /\ RequestDone /\ OwnSignature /\ call.sent = call.signed
    /\ call.max_age = CustomMaxAge
    /\ call.sent.timestamp = now + call.max_age + 1
    /\ resp.result.out = Ret(FALSE)

\* C2: a request signed with create_request_signature and verified with the
\* matching public key inside the freshness window is rejected when exactly
\* one of method, path, timestamp, body differs from what was signed.
C2_OneFieldChanged ==
    (/\ RequestDone /\ OwnSignature
     /\ Abs(now - call.sent.timestamp) <= call.max_age
     /\ Abs(now - call.signed.timestamp) <= call.max_age
     /\ FieldsChanged(call.signed, call.sent) = 1)
        => resp.result.out = Ret(FALSE)

\* A fresh request whose body alone was changed after signing was rejected.
C2_Witness ==
    /\ RequestDone /\ OwnSignature
    /\ Abs(now - call.sent.timestamp) <= call.max_age
    /\ call.sent.body # call.signed.body
    /\ FieldsChanged(call.signed, call.sent) = 1
    /\ resp.result.out = Ret(FALSE)

\* C3: verify_signature(pub, m, sign_message(priv, m)) is True for every
\* keypair and message, the empty message included; it is False for a
\* signature made over a different message or with another keypair's
\* private key.
C3_RoundTrip ==
    (MessageDone /\ call.signer \in KeyPairs) =>
        /\ (call.pub = PublicKey(call.signer) /\ call.message = call.signed)
              => resp.result = Ret(TRUE)
        /\ call.message # call.signed => resp.result = Ret(FALSE)
        /\ (\E k \in KeyPairs : k # call.signer /\ call.pub = PublicKey(k))
              => resp.result = Ret(FALSE)

\* The empty message, signed and verified with one keypair, was accepted.
C3_Witness ==
    /\ MessageDone /\ OwnSignature
    /\ call.signed = "" /\ call.message = ""
    /\ resp.result = Ret(TRUE)

\* The presented key or signature is malformed: not base64, or not of the
\* length of a key or signature, or 32 bytes that are no keypair's key.
Malformed(pub, sig) ==
    \/ pub \in {NonBase64Text, EmptyText, ShortText, CorruptKeyText}
    \/ sig \in MalformedSignatureTexts

\* C4: verify_signature never raises: for every public-key string, message
\* and signature string it returns a boolean, and False for malformed input.
C4_Total ==
    MessageDone =>
        /\ ~resp.result.raised
        /\ resp.result.value \in BOOLEAN
        /\ Malformed(call.pub, call.sig) => resp.result = Ret(FALSE)

\* A signature string that is not base64 was answered with False.
C4_Witness ==
    /\ MessageDone
    /\ call.sig = NonBase64Text
    /\ call.pub \in {PublicKey(k) : k \in KeyPairs}
    /\ resp.result = Ret(FALSE)

----------------------------------------------------------------------------
(* app/models.py: the mapped classes and the rows of their tables.         *)

\* Optional values: None is the empty sequence, a value v is <<v>>.
None == <<>>
Some(v) == <<v>>

\* The attributes the declarative classes Identity and Vouch define.
IdentityAttributes ==
    {"public_key", "created_at", "metadata_json", "is_active", "vouches_given", "vouches_received"}
VouchAttributes ==
    {"voucher_public_key", "vouchee_public_key", "created_at", "expires_at", "revoked", "revoked_at", "voucher", "vouchee"}

\* Reading attribute `name` of a class or of one of its instances, given the
\* value it holds when the class defines it: AttributeError otherwise.
GetAttr(attributes, name, value) ==
    IF name \in attributes THEN Ret(value) ELSE Raise("AttributeError")

\* A row of table vouches.  The primary key is (voucher_public_key,
\* vouchee_public_key); revoked defaults to False, revoked_at to None.
Vouch(voucher, vouchee, created_at, expires_at) ==
    [voucher_public_key |-> voucher, vouchee_public_key |-> vouchee,
     created_at |-> created_at, expires_at |-> expires_at,
     revoked |-> FALSE, revoked_at |-> None]

SameKey(v, w) ==
    /\ v.voucher_public_key = w.voucher_public_key
    /\ v.vouchee_public_key = w.vouchee_public_key

----------------------------------------------------------------------------
(* app/config.py: settings.  Scores are floats that are multiples of       *)
(* 2^-max_depth, held here as integers in units of 1 / ScoreUnit.          *)

DefaultMaxDepth == 3                  \* max_depth: int = 3
ScoreUnit == 2 ^ DefaultMaxDepth             \* the score 1.0
trust_decay_num == 1                  \* trust_decay_factor = 0.5 = 1 / 2
trust_decay_den == 2
max_trust_score == 10 * ScoreUnit     \* max_trust_score = 10.0

Min(a, b) == IF a < b THEN a ELSE b

----------------------------------------------------------------------------
(* app/trust.py *)

\* The rows a SELECT returns come in an order the query does not fix (it has
\* no ORDER BY): `order` is a permutation of the keypairs, and rows come in
\* the order of their vouchers in it.
PermutationsOf(keys) == {o \in [keys -> keys] : \A i, j \in keys : o[i] = o[j] => i = j}
Orders == PermutationsOf(KeyPairs)

\* An AsyncSession: the order in which it returns rows, and whether the
\* database answers its queries.
Session(order, up) == [order |-> order, up |-> up]

\* await session.execute(query): the result, or the error of a database that
\* does not answer.
execute(session, result) == IF session.up THEN Ret(result) ELSE Raise("OperationalError")

RECURSIVE RowsInOrder(_, _, _)
RowsInOrder(rows, order, i) ==
    IF i > Len(order) THEN <<>>
    ELSE LET here == {v \in rows : v.voucher_public_key = PublicKey(order[i])}
         IN  (IF here = {} THEN <<>> ELSE <<CHOOSE v \in here : TRUE>>)
                 \o RowsInOrder(rows, order, i + 1)

\* Vouch is active at time t: not revoked, and expires_at is NULL or later.
IsActive(v, t) == ~v.revoked /\ (v.expires_at = None \/ v.expires_at[1] > t)

\* get_active_vouches_for(session, identity_id): the query filters on
\* Vouch.vouchee_id.
get_active_vouches_for(vs, t, session, identity_id) ==
    LET column == GetAttr(VouchAttributes, "vouchee_id", "vouchee_public_key")
    IN  IF column.raised THEN column
        ELSE execute(session, RowsInOrder({v \in vs : v[column.value] = identity_id /\ IsActive(v, t)}, session.order, 1))

\* The result of calculate_trust_score: what it returns or raises, the
\* _visited set it leaves behind and, in order, the identities whose
\* vouchers it fetched.
Scored(out, visited, expanded) == [out |-> out, visited |-> visited, expanded |-> expanded]

\* calculate_trust_score(session, public_key, max_depth, _visited); a
\* top-level call passes _visited = {}.  score_loop is its for loop from the
\* i-th vouch on, with total_score and _visited as they stand.
RECURSIVE calculate_trust_score_rec(_, _, _, _, _, _, _)
RECURSIVE score_loop(_, _, _, _, _, _, _, _, _, _)
score_loop(ids, vs, t, session, max_depth, list, i, total_score, visited, expanded) ==
    IF i > Len(list) THEN Scored(Ret(Min(total_score, max_trust_score)), visited, expanded)
    ELSE IF max_depth > 0
         THEN LET sub == calculate_trust_score_rec(ids, vs, t, session, list[i].voucher_public_key, max_depth - 1, visited)
              IN  IF sub.out.raised THEN Scored(sub.out, sub.visited, expanded \o sub.expanded)
                  ELSE score_loop(ids, vs, t, session, max_depth, list, i + 1,
                                  total_score + ScoreUnit + (sub.out.value * trust_decay_num) \div trust_decay_den,
                                  sub.visited, expanded \o sub.expanded)
         ELSE score_loop(ids, vs, t, session, max_depth, list, i + 1, total_score + ScoreUnit, visited, expanded)

\* A calculate_trust_score that scores an identity whether or not it is in
\* _visited.
calculate_trust_score_ignoring_visited(ids, vs, t, session, public_key, max_depth, visited) ==
    LET seen == visited \cup {public_key}
        identity == execute(session, public_key \in ids)
    IN  IF identity.raised THEN Scored(identity, seen, <<>>)
        ELSE IF ~identity.value THEN Scored(Ret(0), seen, <<>>)
        ELSE LET identity_id == GetAttr(IdentityAttributes, "id", public_key)
             IN  IF identity_id.raised THEN Scored(identity_id, seen, <<>>)
                 ELSE LET found == get_active_vouches_for(vs, t, session, identity_id.value)
                      IN  IF found.raised THEN Scored(found, seen, <<public_key>>)
                          ELSE IF found.value = <<>> THEN Scored(Ret(0), seen, <<public_key>>)
                          ELSE score_loop(ids, vs, t, session, max_depth, found.value, 1, 0, seen, <<public_key>>)

calculate_trust_score_rec(ids, vs, t, session, public_key, max_depth, visited) ==
    IF public_key \in visited THEN Scored(Ret(0), visited, <<>>)
    ELSE LET seen == visited \cup {public_key}
             identity == execute(session, public_key \in ids)
         IN  IF identity.raised THEN Scored(identity, seen, <<>>)
             ELSE IF ~identity.value THEN Scored(Ret(0), seen, <<>>)
             ELSE LET identity_id == GetAttr(IdentityAttributes, "id", public_key)
                  IN  IF identity_id.raised THEN Scored(identity_id, seen, <<>>)
                      ELSE LET found == get_active_vouches_for(vs, t, session, identity_id.value)
                           IN  IF found.raised THEN Scored(found, seen, <<public_key>>)
                               ELSE IF found.value = <<>> THEN Scored(Ret(0), seen, <<public_key>>)
                               ELSE score_loop(ids, vs, t, session, max_depth, found.value, 1, 0, seen, <<public_key>>)

\* A _visited parameter whose default is one set object shared by all
\* calls (def f(..., _visited=set())).
top_level_visited_shared(previous) == previous

\* The _visited set of a top-level call, `previous` being the set an earlier
\* top-level call left behind: the parameter defaults to None, and a new
\* set() is made for each call.
top_level_visited(previous) == {}

calculate_trust_score(ids, vs, t, session, public_key, max_depth) ==
    calculate_trust_score_rec(ids, vs, t, session, public_key, max_depth, top_level_visited({}))

\* What get_trust_info returns or raises, and the steps it took in order:
\* the identity query, the vouch query, the score computation.
TrustInfo(out, steps) == [out |-> out, steps |-> steps]

\* A get_trust_info without the early return: it queries the vouches of a
\* key and computes its score whether or not the key is registered.
get_trust_info_without_short_circuit(ids, vs, t, session, public_key) ==
    LET scored == <<"select_identity", "get_active_vouches_for", "calculate_trust_score">>
        trust_score == calculate_trust_score(ids, vs, t, session, public_key, DefaultMaxDepth).out
    IN  IF public_key \notin ids
        THEN TrustInfo(Ret([exists |-> FALSE, trust_score |-> trust_score.value, direct_vouches |-> 0, vouches |-> <<>>]),
                       scored)
        ELSE TrustInfo(Raise("AttributeError"), <<"select_identity">>)

\* A get_trust_info that answers exists = False when the identity query
\* fails.
get_trust_info_masking_errors(ids, vs, t, session, public_key) ==
    IF ~session.up \/ public_key \notin ids
    THEN TrustInfo(Ret([exists |-> FALSE, trust_score |-> 0, direct_vouches |-> 0, vouches |-> <<>>]),
                   <<"select_identity">>)
    ELSE TrustInfo(Raise("AttributeError"), <<"select_identity">>)

\* get_trust_info(session, public_key); it calls calculate_trust_score with
\* the default max_depth = 3.
get_trust_info(ids, vs, t, session, public_key) ==
    LET identity == execute(session, public_key \in ids)
    IN  IF identity.raised THEN TrustInfo(identity, <<"select_identity">>)
        ELSE IF ~identity.value
        THEN TrustInfo(Ret([exists |-> FALSE, trust_score |-> 0, direct_vouches |-> 0, vouches |-> <<>>]),
                       <<"select_identity">>)
        ELSE LET identity_id == GetAttr(IdentityAttributes, "id", public_key)
             IN  IF identity_id.raised THEN TrustInfo(identity_id, <<"select_identity">>)
                 ELSE LET found == get_active_vouches_for(vs, t, session, identity_id.value)
                          queried == <<"select_identity", "get_active_vouches_for">>
                      IN  IF found.raised THEN TrustInfo(found, queried)
                          ELSE LET trust_score == calculate_trust_score(ids, vs, t, session, public_key, DefaultMaxDepth).out
                                   scored == queried \o <<"calculate_trust_score">>
                               IN  IF trust_score.raised THEN TrustInfo(trust_score, scored)
                                   ELSE LET vouch_id == GetAttr(VouchAttributes, "id", 0)
                                        IN  IF found.value # <<>> /\ vouch_id.raised THEN TrustInfo(vouch_id, scored)
                                            ELSE TrustInfo(Ret([exists |-> TRUE, trust_score |-> trust_score.value,
                                                                direct_vouches |-> Len(found.value), vouches |-> found.value]),
                                                           scored)

----------------------------------------------------------------------------
(* SpecTrust: calculate_trust_score applied to drawn vouch graphs.  Init   *)
(* draws a store the service can be in (vouches between registered         *)
(* identities, no self-vouch, one row per pair), the queried key, max_depth*)
(* and the order in which the store returns rows.                          *)

GraphTime == Now0 - 1                 \* created_at of the drawn rows
MaxRows == 3                          \* rows of table vouches drawn

\* The row of a pair of identities in state st, as it is at time t: active
\* for good, expired at t, or revoked.
RowInState(voucher, vouchee, st, t) ==
    CASE st = "active"  -> Vouch(voucher, vouchee, GraphTime, None)
      [] st = "expired" -> Vouch(voucher, vouchee, GraphTime, Some(t))
      [] st = "revoked" -> [Vouch(voucher, vouchee, GraphTime, None) EXCEPT !.revoked = TRUE, !.revoked_at = Some(t)]

\* A set of rows holds at most one row per (voucher, vouchee).
PrimaryKeyUnique(vs) == \A v, w \in vs : SameKey(v, w) => v = w

\* The stores over identities ids: every pair of distinct identities has no
\* row or one row, at most MaxRows rows in all.
Graphs(ids, t) ==
    LET pairs == {p \in ids \X ids : p[1] # p[2]}
        shapes == {f \in [pairs -> {"absent", "active", "expired", "revoked"}] :
                      Cardinality({p \in pairs : f[p] # "absent"}) <= MaxRows}
    IN  {{RowInState(p[1], p[2], f[p], t) : p \in {q \in pairs : f[q] # "absent"}} : f \in shapes}

\* The calls drawn over keypairs `keys` and row orders `orders`: a
\* calculate_trust_score with each max_depth, or a get_trust_info, on a
\* database that answers; one of each on a database that does not; and a
\* call as the loop of calculate_trust_score makes it, with max_depth - 1
\* and the _visited set as it stands.
TrustCalls(keys, orders) ==
    {[op |-> "calculate_trust_score", stage |-> "called", public_key |-> PublicKey(k),
      max_depth |-> d, order |-> o, up |-> TRUE] : k \in keys, d \in 0..DefaultMaxDepth, o \in orders}
    \cup {[op |-> f, stage |-> "called", public_key |-> PublicKey(k),
           max_depth |-> DefaultMaxDepth, order |-> o, up |-> u] :
              f \in {"calculate_trust_score", "get_trust_info"}, k \in keys, o \in orders, u \in BOOLEAN}
    \cup {[op |-> "recursive_call", stage |-> "called", public_key |-> PublicKey(k),
           max_depth |-> d, order |-> o, up |-> TRUE, visited |-> {PublicKey(j) : j \in seen}] :
              k \in keys, d \in 0..(DefaultMaxDepth - 1), o \in orders, seen \in SUBSET keys}

InitTrust ==
    /\ now = Now0
    /\ identities \in SUBSET {PublicKey(k) : k \in KeyPairs}
    /\ vouches \in Graphs(identities, now)
    /\ call \in TrustCalls(KeyPairs, Orders)
    /\ resp = NoResp

\* calculate_trust_score(session, public_key, max_depth)
ComputeTrustScore ==
    /\ call.op = "calculate_trust_score"
    /\ call.stage = "called"
    /\ resp' = [op |-> "calculate_trust_score",
                result |-> calculate_trust_score(identities, vouches, now, Session(call.order, call.up), call.public_key, call.max_depth)]
    /\ call' = [call EXCEPT !.stage = "done"]
    /\ UNCHANGED <<now, identities, vouches>>

\* The same query evaluated again as a new top-level call, the store
\* returning rows in another order.
ComputeTrustScoreAgain ==
    /\ call.op = "calculate_trust_score"
    /\ call.stage = "done"
    /\ \E o \in PermutationsOf(DOMAIN call.order) :
          /\ o # call.order
          /\ resp' = [op |-> "calculate_trust_score_again", first |-> resp.result, order |-> o,
                      result |-> calculate_trust_score_rec(identities, vouches, now, Session(o, call.up), call.public_key,
                                                           call.max_depth, top_level_visited(resp.result.visited))]
    /\ call' = [call EXCEPT !.stage = "again"]
    /\ UNCHANGED <<now, identities, vouches>>

\* get_trust_info(session, public_key)
ComputeTrustInfo ==
    /\ call.op = "get_trust_info"
    /\ call.stage = "called"
    /\ resp' = [op |-> "get_trust_info",
                result |-> get_trust_info(identities, vouches, now, Session(call.order, call.up), call.public_key)]
    /\ call' = [call EXCEPT !.stage = "done"]
    /\ UNCHANGED <<now, identities, vouches>>

\* calculate_trust_score(session, vouch.voucher_public_key, max_depth - 1,
\* _visited): the call of the loop.
ComputeRecursiveScore ==
    /\ call.op = "recursive_call"
    /\ call.stage = "called"
    /\ resp' = [op |-> "recursive_call",
                result |-> calculate_trust_score_rec(identities, vouches, now, Session(call.order, call.up), call.public_key,
                                                     call.max_depth, call.visited)]
    /\ call' = [call EXCEPT !.stage = "done"]
    /\ UNCHANGED <<now, identities, vouches>>

NextTrust == ComputeTrustScore \/ ComputeTrustScoreAgain \/ ComputeTrustInfo \/ ComputeRecursiveScore

SpecTrust == InitTrust /\ [][NextTrust]_vars

----------------------------------------------------------------------------
(* Claims about calculate_trust_score, checked under SpecTrust.            *)

\* A calculate_trust_score on a database that answers has returned.
TrustDone == call.op = "calculate_trust_score" /\ call.stage \in {"done", "again"} /\ call.up
TrustAgain == call.op = "calculate_trust_score" /\ call.stage = "again" /\ call.up

\* A sequence holds no element twice.
NoDuplicates(seq) == \A i, j \in 1..Len(seq) : seq[i] = seq[j] => i = j

\* C8: for every vouch graph, identity and max_depth >= 0,
\* calculate_trust_score returns a score s with 0 <= s <= max_trust_score.
C8_ScoreInRange ==
    TrustDone =>
        /\ ~resp.result.out.raised
        /\ 0 <= resp.result.out.value
        /\ resp.result.out.value <= max_trust_score

\* C9: on every finite vouch graph, cycles included, a top-level
\* calculate_trust_score call ends with a score, and it fetches the vouchers
\* of no identity more than once.
C9_ScoreAndExpandedOnce ==
    TrustDone =>
        /\ ~resp.result.out.raised
        /\ resp.result.out.value \in 0..max_trust_score
        /\ NoDuplicates(resp.result.expanded)

\* C10: on a fixed graph state calculate_trust_score returns the same score
\* on every evaluation, whatever the order in which the store returns an
\* identity's active vouchers.
C10_SameScoreInAnyOrder ==
    TrustAgain =>
        /\ ~resp.first.out.raised
        /\ ~resp.result.out.raised
        /\ resp.result.out.value = resp.first.out.value

----------------------------------------------------------------------------
(* HTTP requests.  Header and body text that the server parses is held as  *)
(* it arrives: X-Timestamp as a sequence of characters, the JSON body as a *)
(* string.                                                                 *)

\* str(timestamp): the header the clients send (tests/conftest.py, cli.py).
RECURSIVE DecimalChars(_)
DecimalChars(n) ==
    IF n < 0 THEN <<"-">> \o DecimalChars(-n)
    ELSE IF n < 10 THEN <<Digit(n)>>
    ELSE DecimalChars(n \div 10) \o <<Digit(n % 10)>>

NotANumber == <<"n", "a", "n">>       \* an X-Timestamp such as "not-a-number"

DigitValue(c) ==
    CASE c = "0" -> 0 [] c = "1" -> 1 [] c = "2" -> 2 [] c = "3" -> 3 [] c = "4" -> 4
      [] c = "5" -> 5 [] c = "6" -> 6 [] c = "7" -> 7 [] c = "8" -> 8 [] c = "9" -> 9
      [] OTHER -> -1

RECURSIVE DigitsValue(_, _)
DigitsValue(chars, acc) ==
    IF chars = <<>> THEN acc ELSE DigitsValue(Tail(chars), 10 * acc + DigitValue(Head(chars)))

AllDigits(chars) == chars # <<>> /\ \A i \in 1..Len(chars) : DigitValue(chars[i]) >= 0

\* int(x_timestamp): the value of a decimal numeral with an optional sign,
\* ValueError for anything else.
int(chars) ==
    IF chars # <<>> /\ Head(chars) \in {"-", "+"}
    THEN IF AllDigits(Tail(chars))
         THEN Ret((IF Head(chars) = "-" THEN -1 ELSE 1) * DigitsValue(Tail(chars), 0))
         ELSE Raise("ValueError")
    ELSE IF AllDigits(chars) THEN Ret(DigitsValue(chars, 0)) ELSE Raise("ValueError")

\* The name under which a key's base64 text appears inside a JSON body.
KeyName(text) ==
    IF \E k \in KeyPairs : text = PublicKey(k)
    THEN "pk" \o Digit(CHOOSE k \in KeyPairs : text = PublicKey(k))
    ELSE "AAAA"

\* The texts a client names as vouchee: the public keys and a string that
\* is no public key.
VoucheeTexts == {PublicKey(k) : k \in KeyPairs} \cup {ShortText}

\* expires_in_days of a VouchRequest: None, or a number of days.
ExpiresChoices == {None, Some(1)}

\* Values of expires_in_days that the schema accepts as well (int | None,
\* without a lower bound).
AcceptedExpires == ExpiresChoices \cup {Some(0), Some(-1)}

\* json.dumps of a VouchRequest.
VouchBody(vouchee, expires_in_days) ==
    IF expires_in_days = None
    THEN "{\"vouchee_public_key\": \"" \o KeyName(vouchee) \o "\"}"
    ELSE "{\"vouchee_public_key\": \"" \o KeyName(vouchee) \o "\", \"expires_in_days\": "
            \o Decimal(expires_in_days[1]) \o "}"

\* The parsed body: the VouchRequest whose JSON text the body is.
ParseVouchRequest(body) ==
    CHOOSE r \in [vouchee_public_key : VoucheeTexts, expires_in_days : AcceptedExpires] :
        VouchBody(r.vouchee_public_key, r.expires_in_days) = body

Request(method, path, x_public_key, x_timestamp, x_signature, body, query) ==
    [method |-> method, path |-> path, x_public_key |-> x_public_key,
     x_timestamp |-> x_timestamp, x_signature |-> x_signature, body |-> body, query |-> query]

\* A request without the X- headers that names a public key: in the body of
\* POST /register, in the path of GET /trust/{public_key}.
PublicRequest(method, path, public_key) ==
    [method |-> method, path |-> path, public_key |-> public_key]

NoQuery == [voucher_public_key |-> EmptyText, vouchee_public_key |-> EmptyText]

\* create_auth_headers / make_authenticated_request: a request signed by
\* keypair k at `timestamp` over method, path and body.
SignedRequest(k, method, path, timestamp, body, query) ==
    Request(method, path, PublicKey(k), DecimalChars(timestamp),
            create_request_signature(PrivateKey(k), method, path, timestamp, body), body, query)

\* What a sender may get wrong, or change, in a signed request.
Faults == {"none", "timestamp_format", "wrong_message", "signature_format", "key_format", "other_key"}

Faulty(req, k, fault) ==
    CASE fault = "none" -> req
      [] fault = "timestamp_format" -> [req EXCEPT !.x_timestamp = NotANumber]
      [] fault = "wrong_message" -> [req EXCEPT !.x_signature = sign_message(PrivateKey(k), "wrong message")]
      [] fault = "signature_format" -> [req EXCEPT !.x_signature = NonBase64Text]
      [] fault = "key_format" -> [req EXCEPT !.x_public_key = NonBase64Text]
      [] fault = "other_key" -> [req EXCEPT !.x_public_key = PublicKey((k % NumKeys) + 1)]

\* Request timestamps relative to the server clock: stale, now, at the edge
\* of the window, in the future.
ServiceOffsets == {-(DefaultMaxAge + 1), 0, DefaultMaxAge, DefaultMaxAge + 1}

\* The requests sent: a timestamp offset and a fault.  Every offset without
\* fault, every fault with a fresh timestamp, and two with both.
Variants ==
    {<<d, "none">> : d \in ServiceOffsets} \cup {<<0, f>> : f \in Faults}
        \cup {<<-(DefaultMaxAge + 1), "wrong_message">>, <<DefaultMaxAge + 1, "key_format">>}

----------------------------------------------------------------------------
(* app/auth.py *)

\* The outcome of a dependency or handler: an HTTP status and detail, the
\* steps taken in order, and the store it leaves.
Response(status, detail, log, ids, vs) ==
    [status |-> status, detail |-> detail, log |-> log, identities |-> ids, vouches |-> vs,
     content |-> None]

\* A response with a body.
ResponseWith(content, log, ids, vs) ==
    [status |-> 200, detail |-> "", log |-> log, identities |-> ids, vouches |-> vs,
     content |-> Some(content)]

\* A dependency that tells a stale or future timestamp from a bad signature
\* in the detail of its 401.
verify_auth_headers_telling(t, req) ==
    LET timestamp == int(req.x_timestamp)
    IN  IF timestamp.raised
        THEN [ok |-> FALSE, status |-> 400, detail |-> "Invalid timestamp format",
              public_key |-> req.x_public_key, log |-> <<"int(x_timestamp)">>]
        ELSE LET is_valid == verify_request_signature(t, req.x_public_key, req.method, req.path, timestamp.value, req.x_signature, req.body, DefaultMaxAge)
                 log == <<"int(x_timestamp)", "request.body">> \o is_valid.steps
             IN  IF is_valid.out = Ret(TRUE)
                 THEN [ok |-> TRUE, status |-> 200, detail |-> "",
                       public_key |-> req.x_public_key, log |-> log]
                 ELSE [ok |-> FALSE, status |-> 401,
                       detail |-> IF timestamp_fresh(t, timestamp.value, DefaultMaxAge)
                                  THEN "Invalid signature" ELSE "Timestamp expired",
                       public_key |-> req.x_public_key, log |-> log]

\* A dependency that reads the body first and answers an X-Timestamp that
\* is no number like a failed authentication.
verify_auth_headers_parsing_late(t, req) ==
    LET timestamp == int(req.x_timestamp)
    IN  IF timestamp.raised
        THEN [ok |-> FALSE, status |-> 401, detail |-> "Invalid signature or timestamp expired",
              public_key |-> req.x_public_key, log |-> <<"request.body", "int(x_timestamp)">>]
        ELSE LET is_valid == verify_request_signature(t, req.x_public_key, req.method, req.path, timestamp.value, req.x_signature, req.body, DefaultMaxAge)
                 log == <<"request.body", "int(x_timestamp)">> \o is_valid.steps
             IN  IF is_valid.out = Ret(TRUE)
                 THEN [ok |-> TRUE, status |-> 200, detail |-> "",
                       public_key |-> req.x_public_key, log |-> log]
                 ELSE [ok |-> FALSE, status |-> 401, detail |-> "Invalid signature or timestamp expired",
                       public_key |-> req.x_public_key, log |-> log]

\* verify_auth_headers(request, x_public_key, x_timestamp, x_signature):
\* ok with the verified public key, or the HTTPException raised.
verify_auth_headers(t, req) ==
    LET timestamp == int(req.x_timestamp)
    IN  IF timestamp.raised
        THEN [ok |-> FALSE, status |-> 400, detail |-> "Invalid timestamp format",
              public_key |-> req.x_public_key, log |-> <<"int(x_timestamp)">>]
        ELSE LET body_str == req.body
                 is_valid == verify_request_signature(t, req.x_public_key, req.method, req.path, timestamp.value, req.x_signature, body_str, DefaultMaxAge)
                 log == <<"int(x_timestamp)", "request.body">> \o is_valid.steps
             IN  IF is_valid.out.raised
                 THEN [ok |-> FALSE, status |-> 500, detail |-> is_valid.out.exc,
                       public_key |-> req.x_public_key, log |-> log]
                 ELSE IF ~is_valid.out.value
                 THEN [ok |-> FALSE, status |-> 401, detail |-> "Invalid signature or timestamp expired",
                       public_key |-> req.x_public_key, log |-> log]
                 ELSE [ok |-> TRUE, status |-> 200, detail |-> "",
                       public_key |-> req.x_public_key, log |-> log]

AuthFailure(auth, ids, vs) == Response(auth.status, auth.detail, auth.log, ids, vs)

----------------------------------------------------------------------------
(* app/main.py: the handlers.  Each takes the store and the clock and      *)
(* gives the Response, which holds the store after the request.            *)

vouch_default_ttl_days == None        \* settings.vouch_default_ttl_days
SecondsPerDay == 86400

\* An insert into a table without a primary key on (voucher, vouchee).
InsertVouchUnchecked(vs, row) == Ret(vs \cup {row})

\* An insert that replaces the row of the same (voucher, vouchee).
InsertVouchReplacing(vs, row) == Ret({v \in vs : ~SameKey(v, row)} \cup {row})

\* session.add(row); commit(): the primary key makes a second row of the
\* same (voucher, vouchee) an IntegrityError.
InsertVouch(vs, row) ==
    IF \E v \in vs : SameKey(v, row) THEN Raise("IntegrityError") ELSE Ret(vs \cup {row})

\* A register that adds the identity without looking for an existing one.
register_handler_without_lookup(ids, vs, t, req) ==
    IF ~is_valid_public_key(req.public_key)
    THEN Response(422, "Invalid Ed25519 public key", <<"validate">>, ids, vs)
    ELSE Response(200, "", <<"validate", "insert_identity", "commit">>, ids \cup {req.public_key}, vs)

\* The expires_at that vouch gives a new row for the expires_in_days of the
\* request.
vouch_expires_at(t, days) ==
    IF days # None /\ days[1] # 0 THEN Some(t + days[1] * SecondsPerDay)
    ELSE IF vouch_default_ttl_days # None /\ vouch_default_ttl_days[1] # 0
         THEN Some(t + vouch_default_ttl_days[1] * SecondsPerDay)
         ELSE None

\* register(body): POST /register, no authentication.
register_handler(ids, vs, t, req) ==
    IF ~is_valid_public_key(req.public_key)
    THEN Response(422, "Invalid Ed25519 public key", <<"validate">>, ids, vs)
    ELSE IF req.public_key \in ids
    THEN Response(409, "Public key already registered", <<"validate", "select_identity">>, ids, vs)
    ELSE Response(200, "", <<"validate", "select_identity", "insert_identity", "commit">>,
                  ids \cup {req.public_key}, vs)

\* A vouch that does not compare the voucher with the vouchee.
vouch_body_allowing_self(ids, vs, t, public_key, body, log) ==
    IF public_key \notin ids
    THEN Response(404, "Voucher not registered", log \o <<"select_identity">>, ids, vs)
    ELSE IF body.vouchee_public_key \notin ids
    THEN Response(404, "Vouchee not registered", log \o <<"select_identity", "select_identity">>, ids, vs)
    ELSE LET read == log \o <<"select_identity", "select_identity", "select_vouch">>
             existing == {v \in vs : /\ v.voucher_public_key = public_key
                                     /\ v.vouchee_public_key = body.vouchee_public_key
                                     /\ v.revoked = FALSE}
             days == body.expires_in_days
             expires_at ==
                 IF days # None /\ days[1] # 0 THEN Some(t + days[1] * SecondsPerDay)
                 ELSE IF vouch_default_ttl_days # None /\ vouch_default_ttl_days[1] # 0
                      THEN Some(t + vouch_default_ttl_days[1] * SecondsPerDay)
                      ELSE None
             inserted == InsertVouch(vs, Vouch(public_key, body.vouchee_public_key, t, expires_at))
         IN  IF existing # {}
             THEN Response(409, "Active vouch already exists", read, ids, vs)
             ELSE IF inserted.raised
             THEN Response(500, inserted.exc, read \o <<"insert_vouch", "commit">>, ids, vs)
             ELSE Response(200, "", read \o <<"insert_vouch", "commit">>, ids, inserted.value)

\* A vouch that does not look the vouchee up.
vouch_body_without_vouchee_check(ids, vs, t, public_key, body, log) ==
    IF public_key \notin ids
    THEN Response(404, "Voucher not registered", log \o <<"select_identity">>, ids, vs)
    ELSE IF public_key = body.vouchee_public_key
    THEN Response(400, "Cannot vouch for yourself", log \o <<"select_identity", "select_identity">>, ids, vs)
    ELSE LET read == log \o <<"select_identity", "select_identity", "select_vouch">>
             existing == {v \in vs : /\ v.voucher_public_key = public_key
                                     /\ v.vouchee_public_key = body.vouchee_public_key
                                     /\ v.revoked = FALSE}
             days == body.expires_in_days
             expires_at ==
                 IF days # None /\ days[1] # 0 THEN Some(t + days[1] * SecondsPerDay)
                 ELSE IF vouch_default_ttl_days # None /\ vouch_default_ttl_days[1] # 0
                      THEN Some(t + vouch_default_ttl_days[1] * SecondsPerDay)
                      ELSE None
             inserted == InsertVouch(vs, Vouch(public_key, body.vouchee_public_key, t, expires_at))
         IN  IF existing # {}
             THEN Response(409, "Active vouch already exists", read, ids, vs)
             ELSE IF inserted.raised
             THEN Response(500, inserted.exc, read \o <<"insert_vouch", "commit">>, ids, vs)
             ELSE Response(200, "", read \o <<"insert_vouch", "commit">>, ids, inserted.value)

\* The part of vouch that runs once verify_auth_headers has returned
\* public_key and the body has been validated.
vouch_body(ids, vs, t, public_key, body, log) ==
    IF public_key \notin ids
    THEN Response(404, "Voucher not registered", log \o <<"select_identity">>, ids, vs)
    ELSE IF body.vouchee_public_key \notin ids
    THEN Response(404, "Vouchee not registered", log \o <<"select_identity", "select_identity">>, ids, vs)
    ELSE IF public_key = body.vouchee_public_key
    THEN Response(400, "Cannot vouch for yourself", log \o <<"select_identity", "select_identity">>, ids, vs)
    ELSE LET read == log \o <<"select_identity", "select_identity", "select_vouch">>
             existing == {v \in vs : /\ v.voucher_public_key = public_key
                                     /\ v.vouchee_public_key = body.vouchee_public_key
                                     /\ v.revoked = FALSE}
             days == body.expires_in_days
             expires_at ==
                 IF days # None /\ days[1] # 0 THEN Some(t + days[1] * SecondsPerDay)
                 ELSE IF vouch_default_ttl_days # None /\ vouch_default_ttl_days[1] # 0
                      THEN Some(t + vouch_default_ttl_days[1] * SecondsPerDay)
                      ELSE None
             inserted == InsertVouch(vs, Vouch(public_key, body.vouchee_public_key, t, expires_at))
         IN  IF existing # {}
             THEN Response(409, "Active vouch already exists", read, ids, vs)
             ELSE IF inserted.raised
             THEN Response(500, inserted.exc, read \o <<"insert_vouch", "commit">>, ids, vs)
             ELSE Response(200, "", read \o <<"insert_vouch", "commit">>, ids, inserted.value)

\* A vouch handler that does not depend on verify_auth_headers and takes the
\* X-Public-Key header as the caller.
vouch_handler_without_auth(ids, vs, t, req) ==
    LET body == ParseVouchRequest(req.body)
    IN  IF ~is_valid_public_key(body.vouchee_public_key)
        THEN Response(422, "Invalid Ed25519 public key", <<"validate">>, ids, vs)
        ELSE vouch_body(ids, vs, t, req.x_public_key, body, <<"validate">>)

\* vouch(body, db, public_key = Depends(verify_auth_headers)): POST /vouch.
vouch_handler(ids, vs, t, req) ==
    LET auth == verify_auth_headers(t, req)
        body == ParseVouchRequest(req.body)
    IN  IF ~auth.ok THEN AuthFailure(auth, ids, vs)
        ELSE IF ~is_valid_public_key(body.vouchee_public_key)
        THEN Response(422, "Invalid Ed25519 public key", auth.log \o <<"validate">>, ids, vs)
        ELSE vouch_body(ids, vs, t, auth.public_key, body, auth.log \o <<"validate">>)

\* A revoke_vouch that deletes the row.
revoke_vouch_handler_deleting(ids, vs, t, req) ==
    LET auth == verify_auth_headers(t, req)
        found == {v \in vs : /\ v.voucher_public_key = req.query.voucher_public_key
                             /\ v.vouchee_public_key = req.query.vouchee_public_key}
        read == auth.log \o <<"select_vouch">>
    IN  IF ~auth.ok THEN AuthFailure(auth, ids, vs)
        ELSE IF found = {}
        THEN Response(404, "Vouch not found", read, ids, vs)
        ELSE IF req.query.voucher_public_key # auth.public_key
        THEN Response(401, "Not authorized to revoke this vouch", read, ids, vs)
        ELSE Response(200, "revoked", read \o <<"delete_vouch", "commit">>, ids, vs \ found)

\* A revoke_vouch that revokes a revoked vouch again, with a new revoked_at.
revoke_vouch_handler_again(ids, vs, t, req) ==
    LET auth == verify_auth_headers(t, req)
        found == {v \in vs : /\ v.voucher_public_key = req.query.voucher_public_key
                             /\ v.vouchee_public_key = req.query.vouchee_public_key}
        read == auth.log \o <<"select_vouch">>
    IN  IF ~auth.ok THEN AuthFailure(auth, ids, vs)
        ELSE IF found = {}
        THEN Response(404, "Vouch not found", read, ids, vs)
        ELSE LET vouch_row == CHOOSE v \in found : TRUE
             IN  IF req.query.voucher_public_key # auth.public_key
                 THEN Response(401, "Not authorized to revoke this vouch", read, ids, vs)
                 ELSE Response(200, "revoked", read \o <<"update_vouch", "commit">>, ids,
                               (vs \ {vouch_row}) \cup {[vouch_row EXCEPT !.revoked = TRUE, !.revoked_at = Some(t)]})

\* A revoke_vouch that lets the vouchee revoke as well.
revoke_vouch_handler_for_vouchee_too(ids, vs, t, req) ==
    LET auth == verify_auth_headers(t, req)
        found == {v \in vs : /\ v.voucher_public_key = req.query.voucher_public_key
                             /\ v.vouchee_public_key = req.query.vouchee_public_key}
        read == auth.log \o <<"select_vouch">>
    IN  IF ~auth.ok THEN AuthFailure(auth, ids, vs)
        ELSE IF found = {}
        THEN Response(404, "Vouch not found", read, ids, vs)
        ELSE LET vouch_row == CHOOSE v \in found : TRUE
             IN  IF req.query.voucher_public_key # auth.public_key /\ req.query.vouchee_public_key # auth.public_key
                 THEN Response(401, "Not authorized to revoke this vouch", read, ids, vs)
                 ELSE IF vouch_row.revoked
                 THEN Response(400, "Vouch already revoked", read, ids, vs)
                 ELSE Response(200, "revoked", read \o <<"update_vouch", "commit">>, ids,
                               (vs \ {vouch_row}) \cup {[vouch_row EXCEPT !.revoked = TRUE, !.revoked_at = Some(t)]})

\* revoke_vouch(voucher_public_key, vouchee_public_key, db,
\*              public_key = Depends(verify_auth_headers)): DELETE /vouch.
revoke_vouch_handler(ids, vs, t, req) ==
    LET auth == verify_auth_headers(t, req)
        found == {v \in vs : /\ v.voucher_public_key = req.query.voucher_public_key
                             /\ v.vouchee_public_key = req.query.vouchee_public_key}
        read == auth.log \o <<"select_vouch">>
    IN  IF ~auth.ok THEN AuthFailure(auth, ids, vs)
        ELSE IF found = {}
        THEN Response(404, "Vouch not found", read, ids, vs)
        ELSE LET vouch_row == CHOOSE v \in found : TRUE
             IN  IF req.query.voucher_public_key # auth.public_key
                 THEN Response(401, "Not authorized to revoke this vouch", read, ids, vs)
                 ELSE IF vouch_row.revoked
                 THEN Response(400, "Vouch already revoked", read, ids, vs)
                 ELSE Response(200, "revoked", read \o <<"update_vouch", "commit">>, ids,
                               (vs \ {vouch_row}) \cup {[vouch_row EXCEPT !.revoked = TRUE, !.revoked_at = Some(t)]})

\* A get_trust that registers the key it is asked about.
get_trust_handler_registering(ids, vs, t, session, req) ==
    IF ~is_valid_public_key(req.public_key)
    THEN Response(400, "Invalid public key format", <<"validate">>, ids, vs)
    ELSE LET trust_info == get_trust_info(ids, vs, t, session, req.public_key)
             log == <<"validate", "get_trust_info">> \o trust_info.steps
         IN  IF trust_info.out.raised
             THEN Response(500, trust_info.out.exc, log, ids, vs)
             ELSE ResponseWith(trust_info.out.value, log \o <<"insert_identity", "commit">>,
                               ids \cup {req.public_key}, vs)

\* get_trust(public_key, db): GET /trust/{public_key}, no authentication.
\* An exception that get_trust_info raises is answered with status 500.
get_trust_handler(ids, vs, t, session, req) ==
    IF ~is_valid_public_key(req.public_key)
    THEN Response(400, "Invalid public key format", <<"validate">>, ids, vs)
    ELSE LET trust_info == get_trust_info(ids, vs, t, session, req.public_key)
             log == <<"validate", "get_trust_info">> \o trust_info.steps
         IN  IF trust_info.out.raised
             THEN Response(500, trust_info.out.exc, log, ids, vs)
             ELSE ResponseWith(trust_info.out.value, log, ids, vs)

\* verify(body): POST /verify, no authentication and no database access.
verify_handler(ids, vs, t, req) ==
    IF ~is_valid_public_key(req.public_key)
    THEN Response(422, "Invalid Ed25519 public key", <<"validate">>, ids, vs)
    ELSE LET is_valid == verify_signature(req.public_key, req.message, req.signature)
         IN  IF is_valid.raised
             THEN Response(500, is_valid.exc, <<"validate", "verify_signature">>, ids, vs)
             ELSE ResponseWith([valid |-> is_valid.value, public_key |-> req.public_key],
                               <<"validate", "verify_signature">>, ids, vs)

----------------------------------------------------------------------------
(* Spec: the service.  A client sends a request (call), the handler        *)
(* answers it against the store (resp), the client receives the answer.    *)
(* The clock moves between requests.                                       *)

MaxTicks == 1                         \* how often the clock moves
MaxWrites == 5                        \* committed writes after which no more are asked for
TickStep == DefaultMaxAge + 1         \* by how much, in seconds

Init ==
    /\ now = Now0
    /\ identities = {}
    /\ vouches = {}
    /\ call = NoCall
    /\ resp = NoResp

Idle == call = NoCall

\* The number of writes that made the store: one per identity, per vouch
\* row and per revocation.
Writes == Cardinality(identities) + Cardinality(vouches) + Cardinality({v \in vouches : v.revoked})

\* The time the clock shows after i steps: a day, which makes a vouch of one
\* day expire, and a short step, which makes a timestamp stale, in turn.
RECURSIVE ClockAt(_)
ClockAt(i) ==
    IF i = 0 THEN Now0
    ELSE ClockAt(i - 1) + (IF i % 2 = 1 THEN SecondsPerDay ELSE TickStep)

\* The clock is looked at once there is a vouch that can expire.
Tick ==
    /\ Idle
    /\ vouches # {}
    /\ \E i \in 0..(MaxTicks - 1) :
          /\ now = ClockAt(i)
          /\ now' = ClockAt(i + 1)
    /\ UNCHANGED <<identities, vouches, call, resp>>

Send(op, req) ==
    /\ Idle
    /\ call' = [op |-> op, stage |-> "sent", request |-> req]
    /\ UNCHANGED <<now, identities, vouches, resp>>

ClientRegister ==
    /\ Writes < MaxWrites
    /\ \E p \in PublicKeyTexts : Send("register", PublicRequest("POST", "/register", p))

\* The requests to POST /vouch: every voucher, vouchee and expiry without
\* fault, and every variant for a vouch without expiry of the next keypair.
ClientVouch ==
    /\ Writes < MaxWrites
    /\ \E k \in KeyPairs, vouchee \in VoucheeTexts, days \in ExpiresChoices, x \in Variants :
          /\ \/ x = <<0, "none">>
             \/ days = None /\ vouchee = PublicKey((k % NumKeys) + 1)
          /\ Send("vouch", Faulty(SignedRequest(k, "POST", "/vouch", now + x[1], VouchBody(vouchee, days), NoQuery), k, x[2]))

\* The variants of the requests to DELETE /vouch.
RevokeVariants == {<<0, "none">>, <<0, "timestamp_format">>, <<0, "wrong_message">>, <<-(DefaultMaxAge + 1), "none">>}

\* The requests to DELETE /vouch: every sender and vouch without fault, and
\* every variant for a sender naming a vouch of its own.
ClientRevoke ==
    /\ Writes < MaxWrites
    /\ \E k \in KeyPairs, voucher \in KeyPairs, vouchee \in KeyPairs, x \in RevokeVariants :
          /\ voucher # vouchee
          /\ x = <<0, "none">> \/ k = voucher
          /\ Send("revoke_vouch",
                  Faulty(SignedRequest(k, "DELETE", "/vouch", now + x[1], "",
                                       [voucher_public_key |-> PublicKey(voucher), vouchee_public_key |-> PublicKey(vouchee)]),
                         k, x[2]))

ClientTrust ==
    \E p \in PublicKeyTexts : Send("get_trust", PublicRequest("GET", "/trust", p))

\* The requests to POST /verify: a signature of the first keypair over the
\* message or over another one, under its key or under a malformed key.
ClientVerify ==
    \E p \in {PublicKey(1), NonBase64Text}, signed \in {"Hello, World!", "Wrong message"} :
        Send("verify", [method |-> "POST", path |-> "/verify", public_key |-> p,
                        message |-> "Hello, World!", signature |-> sign_message(PrivateKey(1), signed)])

\* The handler's response becomes resp, the store what the response holds.
Answer(op, response) ==
    /\ resp' = [op |-> op, status |-> response.status, detail |-> response.detail,
                log |-> response.log, content |-> response.content]
    /\ identities' = response.identities
    /\ vouches' = response.vouches
    /\ call' = [call EXCEPT !.stage = "done"]
    /\ UNCHANGED now

Pending(op) == call.op = op /\ call.stage = "sent"

register == Pending("register") /\ Answer("register", register_handler(identities, vouches, now, call.request))

vouch == Pending("vouch") /\ Answer("vouch", vouch_handler(identities, vouches, now, call.request))

revoke_vouch == Pending("revoke_vouch") /\ Answer("revoke_vouch", revoke_vouch_handler(identities, vouches, now, call.request))

get_trust ==
    /\ Pending("get_trust")
    /\ \E o \in Orders : Answer("get_trust", get_trust_handler(identities, vouches, now, Session(o, TRUE), call.request))

verify == Pending("verify") /\ Answer("verify", verify_handler(identities, vouches, now, call.request))

Receive ==
    /\ call.stage = "done"
    /\ call' = NoCall
    /\ resp' = NoResp
    /\ UNCHANGED <<now, identities, vouches>>

Next ==
    \/ Tick
    \/ ClientRegister \/ ClientVouch \/ ClientRevoke \/ ClientTrust \/ ClientVerify
    \/ register \/ vouch \/ revoke_vouch \/ get_trust \/ verify
    \/ Receive

Spec == Init /\ [][Next]_vars

----------------------------------------------------------------------------
(* Claims about app/auth.py and the write handlers, checked under Spec.    *)

\* A signed write request has been answered.
AuthDone == call.stage = "done" /\ call.op \in {"vouch", "revoke_vouch"}

\* The X-Timestamp of the request is a number, and its value.
TimestampNumeric(req) == ~int(req.x_timestamp).raised
TimestampOf(req) == int(req.x_timestamp).value

Stale(req) == now - TimestampOf(req) > DefaultMaxAge
Future(req) == TimestampOf(req) - now > DefaultMaxAge
MalformedKeyOrSignature(req) == Malformed(req.x_public_key, req.x_signature)
SignatureMismatch(req) ==
    ~ValidSignatureOf(req.x_public_key, request_message(req.method, req.path, TimestampOf(req), req.body), req.x_signature)

AuthenticationFailureText == "Invalid signature or timestamp expired"

\* C5: for a request with a numeric timestamp header, a stale timestamp, a
\* future timestamp, a signature mismatch and a malformed key or signature
\* all have the same outcome: verify_request_signature returns False and
\* verify_auth_headers raises 401 with one and the same detail.
C5_UniformFailure ==
    (/\ AuthDone
     /\ TimestampNumeric(call.request)
     /\ \/ Stale(call.request)
        \/ Future(call.request)
        \/ SignatureMismatch(call.request)
        \/ MalformedKeyOrSignature(call.request))
        => /\ resp.status = 401
           /\ resp.detail = AuthenticationFailureText
           /\ verify_request_signature(now, call.request.x_public_key, call.request.method, call.request.path, TimestampOf(call.request), call.request.x_signature, call.request.body, DefaultMaxAge).out = Ret(FALSE)

\* A correctly signed request with a stale timestamp got the 401 that a bad
\* signature gets.
C5_Witness ==
    /\ AuthDone
    /\ TimestampNumeric(call.request)
    /\ Stale(call.request)
    /\ ~SignatureMismatch(call.request)
    /\ resp.status = 401
    /\ resp.detail = AuthenticationFailureText

InLog(step, log) == \E i \in 1..Len(log) : log[i] = step

\* C6: verify_auth_headers answers an X-Timestamp that is not a number with
\* 400 'Invalid timestamp format', not with the 401 of a stale numeric
\* timestamp, and it does so before it reads the request body and before any
\* signature verification.
C6_TimestampFormat ==
    AuthDone =>
        /\ ~TimestampNumeric(call.request) =>
              /\ resp.status = 400
              /\ resp.detail = "Invalid timestamp format"
              /\ resp.log = <<"int(x_timestamp)">>
              /\ ~InLog("request.body", resp.log)
              /\ ~InLog("check_timestamp", resp.log)
              /\ ~InLog("verify_signature", resp.log)
        /\ (TimestampNumeric(call.request) /\ Stale(call.request)) =>
              /\ resp.status = 401
              /\ resp.detail # "Invalid timestamp format"

\* A request whose X-Timestamp is not a number was answered with 400.
C6_Witness ==
    /\ AuthDone
    /\ call.request.x_timestamp = NotANumber
    /\ resp.status = 400
    /\ resp.detail = "Invalid timestamp format"

StoreSteps == {"select_identity", "select_vouch", "insert_identity", "insert_vouch", "update_vouch", "commit"}

\* No step of the log touches the store.
NoStoreStep(log) == \A i \in 1..Len(log) : log[i] \notin StoreSteps

\* Every step of the log that touches the store comes after the signature
\* was verified.
StoreStepsAfterAuth(log) ==
    \A i \in 1..Len(log) : log[i] \in StoreSteps => \E j \in 1..(i - 1) : log[j] = "verify_signature"

\* A signed write request is about to be answered.
AuthPending == call.stage = "sent" /\ call.op \in {"vouch", "revoke_vouch"}

\* C7: a POST /vouch or DELETE /vouch whose authentication fails (400 or 401
\* raised by verify_auth_headers) leaves identities and vouches unchanged,
\* and the handler neither reads nor writes the store before authentication
\* has succeeded.
C7_NoStoreAccessBeforeAuth ==
    [][AuthPending =>
          /\ StoreStepsAfterAuth(resp'.log)
          /\ ~verify_auth_headers(now, call.request).ok =>
                /\ identities' = identities
                /\ vouches' = vouches
                /\ resp'.status \in {400, 401}
                /\ NoStoreStep(resp'.log)]_vars

\* A DELETE /vouch that failed authentication named an existing vouch, which
\* is still not revoked.
C7_Witness ==
    /\ AuthDone
    /\ call.op = "revoke_vouch"
    /\ ~verify_auth_headers(now, call.request).ok
    /\ resp.status = 401
    /\ \E v \in vouches :
          /\ v.voucher_public_key = call.request.query.voucher_public_key
          /\ v.vouchee_public_key = call.request.query.vouchee_public_key
          /\ ~v.revoked

----------------------------------------------------------------------------
(* Further claims about calculate_trust_score, checked under SpecTrust.    *)

\* A vouch counts at time t: it is not revoked, and it has no expiry or one
\* strictly later than t.
ActiveEdge(v, t) == v.revoked = FALSE /\ (v.expires_at = None \/ v.expires_at[1] > t)

\* The vouches for public_key that count at time t.
ActiveVouchesFor(vs, public_key, t) == {v \in vs : v.vouchee_public_key = public_key /\ ActiveEdge(v, t)}

\* C11: calculate_trust_score returns exactly 0.0 for an identity that is not
\* registered and for a registered identity that has no active vouchers, for
\* every max_depth.
C11_ZeroScore ==
    (/\ TrustDone
     /\ \/ call.public_key \notin identities
        \/ ActiveVouchesFor(vouches, call.public_key, now) = {})
        => resp.result.out = Ret(0)

\* C15: a vouch counts toward a trust score if and only if it is active at
\* query time (not revoked, and expires_at null or strictly later than now):
\* with max_depth = 0 the score of a registered identity is 1.0 for each of
\* its active vouches, capped at max_trust_score, and a revoked or expired
\* vouch adds nothing.
C15_ActiveEdgesCount ==
    (TrustDone /\ call.max_depth = 0 /\ call.public_key \in identities)
        => resp.result.out =
              Ret(Min(ScoreUnit * Cardinality(ActiveVouchesFor(vouches, call.public_key, now)), max_trust_score))

----------------------------------------------------------------------------
(* Claims about trust queries against the service, checked under Spec.     *)

\* A request of kind op has been answered.
Done(op) == call.op = op /\ call.stage = "done"

\* The vouchee a POST /vouch names in its body.
NamedVouchee(req) == ParseVouchRequest(req.body).vouchee_public_key

\* The trust score of public_key in the store as it stands, rows in order o.
ScoreNow(o, public_key, max_depth) ==
    calculate_trust_score(identities, vouches, now, Session(o, TRUE), public_key, max_depth).out

\* C12: when B, who has no active vouchers, has vouched for A with success,
\* and A has no other active voucher, trust_score(A, max_depth=0) is 1.0;
\* when B has then revoked that vouch with success, trust_score(A) is 0.0.
C12_VouchThenRevoke ==
    /\ (/\ Done("vouch")
        /\ resp.status = 200
        /\ ActiveVouchesFor(vouches, call.request.x_public_key, now) = {}
        /\ Cardinality(ActiveVouchesFor(vouches, NamedVouchee(call.request), now)) = 1)
           => \A o \in Orders : ScoreNow(o, NamedVouchee(call.request), 0) = Ret(ScoreUnit)
    /\ (/\ Done("revoke_vouch")
        /\ resp.status = 200
        /\ ActiveVouchesFor(vouches, call.request.query.vouchee_public_key, now) = {})
           => \A o \in Orders : ScoreNow(o, call.request.query.vouchee_public_key, DefaultMaxDepth) = Ret(0)

\* The fields of a vouch that a trust query reports.
VouchInfo(v) ==
    [voucher_public_key |-> v.voucher_public_key, created_at |-> v.created_at,
     expires_at |-> v.expires_at, revoked |-> v.revoked]

\* C13: GET /trust/{key} for a registered identity succeeds with exists =
\* true, direct_vouches equal to the number of the identity's active vouches,
\* a vouches list with one entry per active vouch, and trust_score equal to
\* calculate_trust_score for the identity.
C13_TrustInfoOfRegistered ==
    (Done("get_trust") /\ call.request.public_key \in identities)
        => /\ resp.status = 200
           /\ resp.content # None
           /\ resp.content[1].exists = TRUE
           /\ resp.content[1].direct_vouches =
                 Cardinality(ActiveVouchesFor(vouches, call.request.public_key, now))
           /\ Len(resp.content[1].vouches) = resp.content[1].direct_vouches
           /\ {VouchInfo(resp.content[1].vouches[i]) : i \in 1..Len(resp.content[1].vouches)}
                 = {VouchInfo(v) : v \in ActiveVouchesFor(vouches, call.request.public_key, now)}
           /\ \E o \in Orders :
                 Ret(resp.content[1].trust_score) = ScoreNow(o, call.request.public_key, DefaultMaxDepth)

\* What a trust query answers for a key that is not registered.
UnknownIdentity == [exists |-> FALSE, trust_score |-> 0, direct_vouches |-> 0, vouches |-> <<>>]

\* C14: GET /trust/{key} for a well-formed key that is not registered is a
\* success: exists = false, trust_score 0.0, direct_vouches 0 and an empty
\* vouch list, answered without a vouch query and without a score
\* computation.
C14_UnknownIdentity ==
    (/\ Done("get_trust")
     /\ is_valid_public_key(call.request.public_key)
     /\ call.request.public_key \notin identities)
        => /\ resp.status = 200
           /\ resp.content = Some(UnknownIdentity)
           /\ InLog("select_identity", resp.log)
           /\ ~InLog("get_active_vouches_for", resp.log)
           /\ ~InLog("calculate_trust_score", resp.log)

\* A trust query for a well-formed key that is not registered was answered
\* with success while the store holds another identity.
C14_Witness ==
    /\ Done("get_trust")
    /\ is_valid_public_key(call.request.public_key)
    /\ call.request.public_key \notin identities
    /\ identities # {}
    /\ resp.status = 200
    /\ resp.content = Some(UnknownIdentity)

----------------------------------------------------------------------------
(* Claims about POST /vouch and DELETE /vouch, checked under Spec.         *)

\* The dependency's verdict on the request in flight.
AuthOf(req) == verify_auth_headers(now, req)

\* A POST /vouch in flight that passes authentication and validation and
\* names two different registered identities.
OtherwiseValid(req) ==
    /\ AuthOf(req).ok
    /\ is_valid_public_key(NamedVouchee(req))
    /\ AuthOf(req).public_key \in identities
    /\ NamedVouchee(req) \in identities
    /\ AuthOf(req).public_key # NamedVouchee(req)

\* The vouches of the pair (voucher, vouchee) among vs.
EdgesOf(vs, voucher, vouchee) ==
    {v \in vs : v.voucher_public_key = voucher /\ v.vouchee_public_key = vouchee}

\* The vouches of the pair the POST /vouch request is about.
EdgesOfRequest(vs, req) == EdgesOf(vs, AuthOf(req).public_key, NamedVouchee(req))

StoreUnchanged == identities' = identities /\ vouches' = vouches

\* C16: an otherwise valid POST /vouch is rejected with 409 'Active vouch
\* already exists' if and only if an active (not revoked and not expired)
\* vouch of the voucher for the vouchee exists, and a rejection leaves the
\* store unchanged.
C16_DuplicateOnlyIfActive ==
    [][(Pending("vouch") /\ OtherwiseValid(call.request)) =>
          /\ (resp'.status = 409 /\ resp'.detail = "Active vouch already exists")
                <=> (\E v \in EdgesOfRequest(vouches, call.request) : ActiveEdge(v, now))
          /\ resp'.status = 409 => StoreUnchanged]_vars

\* C17: when the vouch of V for X has been revoked or has expired, an
\* otherwise valid POST /vouch by V for X succeeds, adds a new active vouch
\* of V for X and keeps the old one.
C17_VouchAgain ==
    [][(/\ Pending("vouch")
        /\ OtherwiseValid(call.request)
        /\ EdgesOfRequest(vouches, call.request) # {}
        /\ \A v \in EdgesOfRequest(vouches, call.request) : ~ActiveEdge(v, now)) =>
          /\ resp'.status = 200
          /\ vouches \subseteq vouches'
          /\ \E v \in EdgesOfRequest(vouches', call.request) \ vouches : ActiveEdge(v, now)]_vars

\* The vouch a DELETE /vouch names.
NamedEdges(vs, req) == EdgesOf(vs, req.query.voucher_public_key, req.query.vouchee_public_key)

\* Vouch v, not revoked before the step, is revoked after it.
NewlyRevoked(v) ==
    /\ ~v.revoked
    /\ \E w \in vouches' : SameKey(v, w) /\ w.revoked

\* C18: a vouch becomes revoked only by a DELETE /vouch whose authenticated
\* public key is the vouch's voucher_public_key; an authenticated DELETE
\* /vouch by anyone else (the vouchee included) that names an existing vouch
\* is rejected with 401 'Not authorized to revoke this vouch' and changes
\* nothing.
C18_OnlyVoucherRevokes ==
    [][/\ \A v \in vouches : NewlyRevoked(v) =>
             /\ Pending("revoke_vouch")
             /\ AuthOf(call.request).ok
             /\ AuthOf(call.request).public_key = v.voucher_public_key
             /\ v \in NamedEdges(vouches, call.request)
       /\ (/\ Pending("revoke_vouch")
           /\ AuthOf(call.request).ok
           /\ NamedEdges(vouches, call.request) # {}
           /\ AuthOf(call.request).public_key # call.request.query.voucher_public_key) =>
             /\ resp'.status = 401
             /\ resp'.detail = "Not authorized to revoke this vouch"
             /\ StoreUnchanged]_vars

\* The vouchee of a vouch that is not revoked asked for its revocation and
\* was refused.
C18_Witness ==
    /\ Done("revoke_vouch")
    /\ resp.status = 401
    /\ resp.detail = "Not authorized to revoke this vouch"
    /\ call.request.x_public_key = call.request.query.vouchee_public_key
    /\ \E v \in NamedEdges(vouches, call.request) : ~v.revoked

\* No vouch has its voucher as its vouchee.
NoSelfVouch == \A v \in vouches : v.voucher_public_key # v.vouchee_public_key

\* An authenticated POST /vouch in flight names the authenticated key as
\* vouchee.
SelfVouchPending ==
    /\ Pending("vouch")
    /\ AuthOf(call.request).ok
    /\ NamedVouchee(call.request) = AuthOf(call.request).public_key

\* C19: no reachable state holds a vouch whose voucher is its vouchee: an
\* authenticated POST /vouch whose vouchee_public_key is the authenticated
\* key is rejected with 400 'Cannot vouch for yourself' and the store is
\* unchanged.
C19_SelfVouchRejected ==
    /\ []NoSelfVouch
    /\ [][SelfVouchPending =>
             /\ resp'.status = 400
             /\ resp'.detail = "Cannot vouch for yourself"
             /\ StoreUnchanged]_vars

\* C19, for the key that is registered and for the key that is not: no
\* reachable state holds a vouch whose voucher is its vouchee; an
\* authenticated POST /vouch whose vouchee_public_key is the authenticated
\* key leaves the store unchanged and is rejected with 400 'Cannot vouch for
\* yourself' when the key is registered and with 404 'Voucher not
\* registered' when it is not.
C19_SelfVouchRejectedOnceRegistered ==
    /\ []NoSelfVouch
    /\ [][SelfVouchPending =>
             /\ StoreUnchanged
             /\ AuthOf(call.request).public_key \in identities =>
                   resp'.status = 400 /\ resp'.detail = "Cannot vouch for yourself"
             /\ AuthOf(call.request).public_key \notin identities =>
                   resp'.status = 404 /\ resp'.detail = "Voucher not registered"]_vars

\* A registered identity asked to vouch for itself and was refused.
C19_Witness ==
    /\ Done("vouch")
    /\ AuthOf(call.request).ok
    /\ NamedVouchee(call.request) = call.request.x_public_key
    /\ call.request.x_public_key \in identities
    /\ resp.status = 400
    /\ resp.detail = "Cannot vouch for yourself"

\* C20: POST /vouch creates a vouch only when the authenticated voucher and
\* the named vouchee are both registered; an authenticated request with a
\* well-formed vouchee is answered 404 'Voucher not registered' when the
\* voucher is not registered, whatever the vouchee, and 404 'Vouchee not
\* registered' when only the vouchee is not, and no vouch is created.
C20_BothRegistered ==
    [][Pending("vouch") =>
          /\ \A v \in vouches' \ vouches :
                /\ AuthOf(call.request).ok
                /\ v.voucher_public_key = AuthOf(call.request).public_key
                /\ v.vouchee_public_key = NamedVouchee(call.request)
                /\ v.voucher_public_key \in identities
                /\ v.vouchee_public_key \in identities
          /\ (AuthOf(call.request).ok /\ is_valid_public_key(NamedVouchee(call.request))) =>
                /\ AuthOf(call.request).public_key \notin identities =>
                      /\ resp'.status = 404
                      /\ resp'.detail = "Voucher not registered"
                      /\ StoreUnchanged
                /\ (/\ AuthOf(call.request).public_key \in identities
                    /\ NamedVouchee(call.request) \notin identities) =>
                      /\ resp'.status = 404
                      /\ resp'.detail = "Vouchee not registered"
                      /\ StoreUnchanged]_vars

\* A registered voucher named a well-formed key that is not registered and
\* got 404 for the vouchee.
C20_Witness ==
    /\ Done("vouch")
    /\ AuthOf(call.request).ok
    /\ call.request.x_public_key \in identities
    /\ is_valid_public_key(NamedVouchee(call.request))
    /\ NamedVouchee(call.request) \notin identities
    /\ resp.status = 404
    /\ resp.detail = "Vouchee not registered"
    /\ vouches = {}

----------------------------------------------------------------------------
(* Claims about the endpoints that take no authentication, checked under   *)
(* Spec.                                                                   *)

AuthSteps == {"int(x_timestamp)", "request.body", "check_timestamp", "verify_signature"}
WriteSteps == {"insert_identity", "insert_vouch", "update_vouch", "commit"}

\* No step of the log belongs to the set.
NoStepIn(steps, log) == \A i \in 1..Len(log) : log[i] \notin steps

\* C21: POST /register takes no authentication; a well-formed key that is
\* not registered is registered, a key that is registered already is
\* answered 409 with the store unchanged, and an identity is only ever
\* inserted for a key that has no identity yet.
C21_RegisterOnce ==
    [][Pending("register") =>
          LET public_key == call.request.public_key
          IN  /\ DOMAIN call.request = {"method", "path", "public_key"}
              /\ NoStepIn(AuthSteps, resp'.log)
              /\ resp'.status \notin {400, 401}
              /\ vouches' = vouches
              /\ (is_valid_public_key(public_key) /\ public_key \notin identities) =>
                    /\ resp'.status = 200
                    /\ identities' = identities \cup {public_key}
              /\ public_key \in identities =>
                    /\ resp'.status = 409
                    /\ resp'.detail = "Public key already registered"
                    /\ StoreUnchanged
              /\ ~NoStepIn({"insert_identity"}, resp'.log) => public_key \notin identities]_vars

\* A registered key was registered again and the request answered 409.
C21_Witness ==
    /\ Done("register")
    /\ call.request.public_key \in identities
    /\ resp.status = 409
    /\ resp.detail = "Public key already registered"

\* C24: GET /trust/{key} is answered without authentication headers and
\* without any write: identities and vouches are the same before and after,
\* whatever the answer, and a well-formed key that is not registered gets
\* its answer with status 200.
C24_TrustQueryReadOnly ==
    [][Pending("get_trust") =>
          /\ DOMAIN call.request = {"method", "path", "public_key"}
          /\ StoreUnchanged
          /\ NoStepIn(AuthSteps, resp'.log)
          /\ NoStepIn(WriteSteps, resp'.log)
          /\ resp'.status \in {200, 400, 500}
          /\ (/\ is_valid_public_key(call.request.public_key)
              /\ call.request.public_key \notin identities) => resp'.status = 200]_vars

\* A trust query without headers was answered with status 200 on a store
\* that holds identities and a vouch.
C24_Witness ==
    /\ Done("get_trust")
    /\ resp.status = 200
    /\ resp.content # None
    /\ identities # {}
    /\ vouches # {}

----------------------------------------------------------------------------
(* A claim about the letter case of the method, checked under SpecCrypto.  *)

\* Two request tuples that differ at most in the letter case of the method.
SameUpToMethodCase(a, b) ==
    /\ upper(a.method) = upper(b.method)
    /\ a.path = b.path
    /\ a.timestamp = b.timestamp
    /\ a.body = b.body

\* The message with the method in upper case.
CanonicalMessage(r) ==
    upper(r.method) \o ":" \o r.path \o ":" \o Decimal(r.timestamp) \o ":" \o r.body

\* C22: signer and verifier both build upper(method):path:timestamp:body
\* (path as given, timestamp in decimal, an absent body as the empty
\* string), so a fresh request signed under one spelling of the method
\* verifies under any other letter case of it.
C22_MethodCaseInsensitive ==
    RequestDone =>
        /\ request_message(call.signed.method, call.signed.path, call.signed.timestamp, call.signed.body) = CanonicalMessage(call.signed)
        /\ request_message(call.sent.method, call.sent.path, call.sent.timestamp, call.sent.body) = CanonicalMessage(call.sent)
        /\ (/\ OwnSignature
            /\ SameUpToMethodCase(call.signed, call.sent)
            /\ Abs(now - call.sent.timestamp) <= call.max_age) => resp.result.out = Ret(TRUE)

----------------------------------------------------------------------------
(* Claims about store failures and about successive top-level calls,       *)
(* checked under SpecTrust.                                                *)

\* A trust function has returned or raised on a database that does not
\* answer.
TrustCallOnFailingStore ==
    /\ call.op \in {"calculate_trust_score", "get_trust_info"}
    /\ call.stage \in {"done", "again"}
    /\ ~call.up

\* C25: when a store query fails during calculate_trust_score or
\* get_trust_info, the caller gets that error as it was raised, never a 0.0
\* score and never an exists = false result.
C25_StoreErrorsPropagate ==
    TrustCallOnFailingStore =>
        /\ resp.result.out = Raise("OperationalError")
        /\ call.stage = "again" => resp.first.out = Raise("OperationalError")

\* get_trust_info was asked about a registered identity with vouches while
\* the database did not answer, and raised the database's error.
C25_Witness ==
    /\ call.op = "get_trust_info"
    /\ call.stage = "done"
    /\ ~call.up
    /\ call.public_key \in identities
    /\ vouches # {}
    /\ resp.result.out.raised
    /\ resp.result.out.exc = "OperationalError"

----------------------------------------------------------------------------
(* SpecShapes: calculate_trust_score and get_trust_info applied to vouch   *)
(* graphs of a given shape over MaxNodes registered identities: chains,    *)
(* and a graph in which two branches reach the same identity.              *)

MaxNodes == 4                         \* registered identities

Nodes == 1..MaxNodes
Node(k) == PublicKey(k)

\* The vouch of identity `voucher` for identity `vouchee`, active for good.
Edge(voucher, vouchee) == Vouch(Node(voucher), Node(vouchee), GraphTime, None)

\* n vouches for n - 1, ..., 2 vouches for 1, and no other vouch.
Chain(n) == {Edge(k + 1, k) : k \in 1..(n - 1)}

\* 2 and 3 vouch for 1, 4 vouches for 2 and for 3, and 2 vouches for 4: the
\* branches of 1 through 2 and through 3 both reach 4.
Converging == {Edge(2, 1), Edge(3, 1), Edge(4, 2), Edge(4, 3), Edge(2, 4)}

ShapeGraphs == {Chain(n) : n \in 2..MaxNodes} \cup {Converging}

\* The store returns rows by ascending or by descending voucher.
Ascending == [i \in Nodes |-> i]
Descending == [i \in Nodes |-> MaxNodes + 1 - i]

InitShapes ==
    /\ now = Now0
    /\ identities = {Node(k) : k \in Nodes}
    /\ vouches \in ShapeGraphs
    /\ call \in TrustCalls(Nodes, {Ascending, Descending})
    /\ resp = NoResp

SpecShapes == InitShapes /\ [][NextTrust]_vars

----------------------------------------------------------------------------
(* Claims about the recursion of calculate_trust_score, checked under      *)
(* SpecShapes.                                                             *)

\* The first top-level calculate_trust_score of identity k has returned.
ScoreDone(k) ==
    /\ call.op = "calculate_trust_score"
    /\ call.stage = "done"
    /\ call.up
    /\ call.public_key = Node(k)

\* decay_factor * score
Decayed(score) == (score * trust_decay_num) \div trust_decay_den

\* C23: in the chain where 3 vouches for 2 and 2 vouches for 1, the score of
\* 1 with max_depth >= 2 exceeds its score with max_depth 0 by more than
\* zero and by less than decay_factor * 1.0, and is at most 1.0 +
\* decay_factor.
C23_ChainOfThree ==
    (ScoreDone(1) /\ vouches = Chain(3) /\ call.max_depth >= 2) =>
        LET deep == resp.result.out
            flat == calculate_trust_score(identities, vouches, now, Session(call.order, TRUE), Node(1), 0).out
        IN  /\ ~deep.raised
            /\ ~flat.raised
            /\ deep.value - flat.value > 0
            /\ deep.value - flat.value < Decayed(ScoreUnit)
            /\ deep.value <= ScoreUnit + Decayed(ScoreUnit)

\* The score the recurrence gives identity x at `depth`, and the visited set
\* it leaves, rows in the order of `order`; SumOver is the sum over the
\* vouchers from the i-th on.
RECURSIVE RecurrenceScore(_, _, _, _, _, _, _)
RECURSIVE SumOver(_, _, _, _, _, _, _, _, _)
SumOver(ids, vs, t, order, depth, list, i, sum, visited) ==
    IF i > Len(list) THEN [score |-> Min(sum, max_trust_score), visited |-> visited]
    ELSE IF depth = 0 THEN SumOver(ids, vs, t, order, depth, list, i + 1, sum + ScoreUnit, visited)
    ELSE LET sub == RecurrenceScore(ids, vs, t, order, list[i].voucher_public_key, depth - 1, visited)
         IN  SumOver(ids, vs, t, order, depth, list, i + 1, sum + ScoreUnit + Decayed(sub.score), sub.visited)

RecurrenceScore(ids, vs, t, order, x, depth, visited) ==
    IF x \in visited THEN [score |-> 0, visited |-> visited]
    ELSE IF x \notin ids THEN [score |-> 0, visited |-> visited \cup {x}]
    ELSE SumOver(ids, vs, t, order, depth, RowsInOrder(ActiveVouchesFor(vs, x, t), order, 1), 1, 0, visited \cup {x})

\* C26: the score of a registered identity x is min(c1 + ... + cn,
\* max_trust_score) over its active vouchers v1..vn in store order, with
\* ci = 1.0 at depth 0 and ci = 1.0 + decay_factor * score(vi, depth - 1),
\* evaluated with the same visited set, at depth > 0.
C26_Recurrence ==
    (\E k \in Nodes : ScoreDone(k)) =>
        resp.result.out = Ret(RecurrenceScore(identities, vouches, now, call.order, call.public_key, call.max_depth, {}).score)

\* The first call was about identity 1 of the converging graph, with depth
\* enough to reach 4 on both branches, the rows of 2 before those of 3.
ConvergingDone ==
    /\ ScoreDone(1)
    /\ vouches = Converging
    /\ call.max_depth = DefaultMaxDepth
    /\ call.order = Ascending

\* The contribution of the vouch of 2 for 1 in the converging graph: 2 is
\* vouched for by 4, and 4 by 2, which is on the path.
FirstBranch == ScoreUnit + Decayed(ScoreUnit + Decayed(ScoreUnit + Decayed(0)))

\* C27: the visited set is shared by the whole call tree and only grows:
\* when the branches through 2 and through 3 both reach 4, the first visit
\* returns the score of 4 and the later visit returns 0.0, so that the vouch
\* of 3 contributes 1.0 + decay_factor * (1.0 + decay_factor * 0.0).
C27_LaterVisitScoresZero ==
    ConvergingDone =>
        /\ resp.result.out = Ret(FirstBranch + ScoreUnit + Decayed(ScoreUnit + Decayed(0)))
        /\ resp.result.visited = {Node(k) : k \in 1..4}
        /\ resp.result.expanded = <<Node(1), Node(2), Node(4), Node(3)>>

C30_DepthBound ==
    \A n \in 2..MaxNodes :
        (ScoreDone(1) /\ vouches = Chain(n)) =>
            /\ ~resp.result.out.raised
            /\ resp.result.visited \subseteq {Node(j) : j \in 1..(call.max_depth + 1)}
            /\ \A i \in 1..Len(resp.result.expanded) :
                  \E j \in 1..(call.max_depth + 1) : resp.result.expanded[i] = Node(j)
            /\ call.max_depth = 0 => resp.result.out.value = ScoreUnit
            /\ (call.max_depth = 1 /\ n > 2) => resp.result.out.value = ScoreUnit + Decayed(ScoreUnit)

----------------------------------------------------------------------------
(* Claims about the order of the checks and about the message format,      *)
(* checked under SpecCrypto.                                               *)

\* C31: verify_request_signature decides once, the timestamp first: a
\* timestamp outside the window is rejected without the message being built
\* and without verify_signature being called; True is returned only after
\* the timestamp check and then the signature check have both passed; no
\* step is taken twice and nothing is written to the store.
C31_TimestampBeforeSignature ==
    RequestDone =>
        LET steps == resp.result.steps
            fresh == Abs(now - call.sent.timestamp) <= call.max_age
        IN  /\ ~fresh => resp.result = [out |-> Ret(FALSE), steps |-> <<"check_timestamp">>]
            /\ fresh => steps = <<"check_timestamp", "build_message", "verify_signature">>
            /\ resp.result.out = Ret(TRUE) =>
                  /\ fresh
                  /\ steps = <<"check_timestamp", "build_message", "verify_signature">>
                  /\ ValidSignatureOf(call.pub, request_message(call.sent.method, call.sent.path, call.sent.timestamp, call.sent.body), call.sig)
            /\ NoDuplicates(steps)
            /\ identities = {}
            /\ vouches = {}

\* A request with a correct signature and a timestamp outside the window was
\* rejected after the timestamp check alone.
C31_Witness ==
    /\ RequestDone
    /\ OwnSignature
    /\ call.sent = call.signed
    /\ Abs(now - call.sent.timestamp) > call.max_age
    /\ resp.result.out = Ret(FALSE)
    /\ resp.result.steps = <<"check_timestamp">>


\* C34: two different tuples (method, path, timestamp, body) never give the
\* same message, so a signature over one request tuple never verifies for a
\* different one, whether they differ in one field or in more.
C34_MessageUnambiguous ==
    (RequestDone /\ call.sent # call.signed) =>
        /\ request_message(call.sent.method, call.sent.path, call.sent.timestamp, call.sent.body)
              # request_message(call.signed.method, call.signed.path, call.signed.timestamp, call.signed.body)
        /\ OwnSignature => resp.result.out = Ret(FALSE)

----------------------------------------------------------------------------
(* Claims about what the store keeps, checked under Spec.                  *)

\* revoked_at is set exactly on the revoked rows.
RevokedAtIffRevoked == \A v \in vouches : v.revoked <=> v.revoked_at # None

\* An authenticated DELETE /vouch by the voucher names a revoked vouch.
RevokeOfRevokedPending ==
    /\ Pending("revoke_vouch")
    /\ AuthOf(call.request).ok
    /\ AuthOf(call.request).public_key = call.request.query.voucher_public_key
    /\ \E v \in NamedEdges(vouches, call.request) : v.revoked

\* C36: a revoked vouch stays revoked, with its revoked_at, in every later
\* state; revoked_at is set if and only if revoked is true; and a further
\* DELETE /vouch by the voucher for a revoked vouch is answered 400 'Vouch
\* already revoked' and leaves the store, revoked_at included, unchanged.
C36_RevocationPermanent ==
    /\ []RevokedAtIffRevoked
    /\ [][/\ \A v \in vouches : v.revoked => v \in vouches'
          /\ RevokeOfRevokedPending =>
                /\ resp'.status = 400
                /\ resp'.detail = "Vouch already revoked"
                /\ StoreUnchanged]_vars

\* The voucher asked again for the revocation of a vouch revoked at an
\* earlier time, and got 400.
C36_Witness ==
    /\ Done("revoke_vouch")
    /\ resp.status = 400
    /\ resp.detail = "Vouch already revoked"
    /\ \E v \in NamedEdges(vouches, call.request) :
          /\ v.revoked
          /\ v.revoked_at # None
          /\ v.revoked_at # Some(now)

\* Every vouch names two registered identities.
VouchesBetweenRegistered ==
    \A v \in vouches : v.voucher_public_key \in identities /\ v.vouchee_public_key \in identities

\* C39: in every reachable state the voucher and the vouchee of each vouch
\* are registered identities, and no step (register, vouch, revoke, trust
\* query, verify, or any other) removes an identity or a vouch row.
C39_NothingRemoved ==
    /\ []VouchesBetweenRegistered
    /\ [][/\ identities \subseteq identities'
          /\ \A v \in vouches : \E w \in vouches' : SameKey(v, w) /\ w.created_at = v.created_at]_vars

\* A revocation was answered with success and the row of the vouch is still
\* in the store, between two registered identities.
C39_Witness ==
    /\ Done("revoke_vouch")
    /\ resp.status = 200
    /\ \E v \in NamedEdges(vouches, call.request) : v.revoked
    /\ VouchesBetweenRegistered
    /\ Cardinality(identities) = NumKeys


\* The store holds what an accepted request with the content of req leaves
\* behind for good: an accepted POST /vouch the row of its pair, an accepted
\* DELETE /vouch the revoked row of its pair.
AcceptedBefore(op, req) ==
    \/ op = "vouch" /\ EdgesOfRequest(vouches, req) # {}
    \/ op = "revoke_vouch" /\ \E v \in NamedEdges(vouches, req) : v.revoked

\* C32: a signed POST /vouch or DELETE /vouch that was accepted before and
\* is submitted again unchanged while its timestamp is still fresh never
\* changes the store again, whatever happened in between.
C32_ReplayChangesNothing ==
    [][\A op \in {"vouch", "revoke_vouch"} :
          (Pending(op) /\ AuthOf(call.request).ok /\ AcceptedBefore(op, call.request)) =>
              /\ StoreUnchanged
              /\ resp'.status # 200]_vars

\* A POST /vouch that still authenticates was answered 500 after the vouch
\* it had created at this very time had been revoked.
C32_Witness ==
    /\ Done("vouch")
    /\ AuthOf(call.request).ok
    /\ resp.status = 500
    /\ \E v \in EdgesOfRequest(vouches, call.request) :
          /\ v.created_at = now
          /\ v.revoked
          /\ v.revoked_at = Some(now)

----------------------------------------------------------------------------
(* SpecReuse: DELETE /vouch requests whose query is changed after signing. *)
(* All of the identities 1..MaxNodes are registered and one of them has    *)
(* vouched for some of the others.  A voucher signs a DELETE /vouch for    *)
(* one vouchee; the request is answered; the same headers are then         *)
(* submitted with another vouchee in the query.                            *)

\* The stores: one voucher with active vouches for some of the others.
ReuseGraphs == {{Edge(v, x) : x \in some} : v \in Nodes, some \in SUBSET Nodes} \ {{}}

InitReuse ==
    /\ now = Now0
    /\ identities = {Node(k) : k \in Nodes}
    /\ vouches \in {g \in ReuseGraphs : \A e \in g : e.voucher_public_key # e.vouchee_public_key}
    /\ call = NoCall
    /\ resp = NoResp

RevokeQuery(voucher, vouchee) == [voucher_public_key |-> Node(voucher), vouchee_public_key |-> Node(vouchee)]

\* A voucher signs and sends a DELETE /vouch that names one of its vouches.
ClientRevokeSigned ==
    \E v \in Nodes, x \in Nodes :
        /\ Edge(v, x) \in vouches
        /\ Send("revoke_vouch", SignedRequest(v, "DELETE", "/vouch", now, "", RevokeQuery(v, x)))

\* The answered request is submitted again, headers unchanged, with another
\* vouchee in its query.
ResubmitChanged ==
    /\ Done("revoke_vouch")
    /\ "original" \notin DOMAIN call
    /\ \E y \in Nodes :
          /\ Node(y) # call.request.query.vouchee_public_key
          /\ call' = [op |-> "revoke_vouch", stage |-> "sent", original |-> call.request,
                      request |-> [call.request EXCEPT !.query.vouchee_public_key = Node(y)]]
    /\ resp' = NoResp
    /\ UNCHANGED <<now, identities, vouches>>

NextReuse == ClientRevokeSigned \/ ResubmitChanged \/ revoke_vouch \/ Receive

SpecReuse == InitReuse /\ [][NextReuse]_vars

\* The query the sender of the request in flight signed it with.
QueryAsSigned == IF "original" \in DOMAIN call THEN call.original.query ELSE call.request.query

\* C33: a vouch of V for X becomes revoked only through a DELETE /vouch that
\* V signed for vouchee X: a request V signed for X, submitted with the
\* query changed to another vouchee Y within the freshness window, does not
\* revoke the vouch of V for Y.
C33_SignatureCoversVouchee ==
    [][\A v \in vouches : NewlyRevoked(v) =>
          /\ Pending("revoke_vouch")
          /\ AuthOf(call.request).public_key = v.voucher_public_key
          /\ QueryAsSigned.vouchee_public_key = v.vouchee_public_key]_vars

----------------------------------------------------------------------------
(* SpecExpiry: POST /vouch with every accepted expires_in_days, between    *)
(* registered identities.                                                  *)

InitExpiry ==
    /\ now = Now0
    /\ identities = {PublicKey(k) : k \in KeyPairs}
    /\ vouches = {}
    /\ call = NoCall
    /\ resp = NoResp

\* A correctly signed POST /vouch of a keypair for another one.
ClientVouchExpiring ==
    \E k \in KeyPairs, vouchee \in KeyPairs, days \in AcceptedExpires :
        /\ k # vouchee
        /\ Send("vouch", SignedRequest(k, "POST", "/vouch", now, VouchBody(PublicKey(vouchee), days), NoQuery))

NextExpiry == ClientVouchExpiring \/ vouch \/ Receive

SpecExpiry == InitExpiry /\ [][NextExpiry]_vars

\* The row a POST /vouch answered with success has just created.
CreatedEdges == {v \in EdgesOfRequest(vouches, call.request) : v.created_at = now}

\* C37: right after a POST /vouch answered with success the created vouch is
\* active (not revoked, expires_at null or in the future) and is counted in
\* the direct_vouches of the vouchee, whatever accepted expires_in_days the
\* request carried.
C37_CreatedEdgeIsActive ==
    (Done("vouch") /\ resp.status = 200) =>
        /\ CreatedEdges # {}
        /\ \A v \in CreatedEdges : ActiveEdge(v, now)
        /\ \A o \in Orders :
              LET info == get_trust_info(identities, vouches, now, Session(o, TRUE), NamedVouchee(call.request)).out
              IN  /\ ~info.raised
                  /\ info.value.direct_vouches = Cardinality(ActiveVouchesFor(vouches, NamedVouchee(call.request), now))
                  /\ info.value.direct_vouches >= 1

----------------------------------------------------------------------------
(* A claim about adding and revoking vouches, checked under SpecShapes.    *)

\* The active vouches that the store could take in addition.
AddableEdges ==
    {Edge(a, b) : a, b \in Nodes} \ {e \in {Edge(a, b) : a, b \in Nodes} :
                                        \/ e.voucher_public_key = e.vouchee_public_key
                                        \/ \E v \in vouches : SameKey(v, e)}

\* The store after the revocation of row v.
WithRevoked(v) == (vouches \ {v}) \cup {[v EXCEPT !.revoked = TRUE, !.revoked_at = Some(now)]}

\* C38: with max_depth and the order of the rows fixed, the score of an
\* identity does not go down when an active vouch is added anywhere in the
\* graph and does not go up when a vouch is revoked.
C38_Monotone ==
    (\E k \in Nodes : ScoreDone(k)) =>
        LET score == resp.result.out
            ScoreOn(vs) == calculate_trust_score(identities, vs, now, Session(call.order, TRUE), call.public_key, call.max_depth).out
        IN  /\ ~score.raised
            /\ \A e \in AddableEdges :
                  /\ ~ScoreOn(vouches \cup {e}).raised
                  /\ ScoreOn(vouches \cup {e}).value >= score.value
            /\ \A v \in vouches :
                  /\ ~ScoreOn(WithRevoked(v)).raised
                  /\ ScoreOn(WithRevoked(v)).value <= score.value

----------------------------------------------------------------------------
(* SpecRace: concurrent POST /vouch requests of one voucher for one        *)
(* vouchee.  Each request runs the handler up to its existence check       *)
(* (VouchCheck) and adds and commits its row in a later step (VouchCommit),*)
(* in any interleaving.  call and resp hold one entry per request.         *)

MaxRequests == 2                      \* requests in flight

Requests == 1..MaxRequests

\* The stores the race starts from: no row of the pair, or a revoked one.
RaceStores(voucher, vouchee) ==
    {{}, {RowInState(PublicKey(voucher), PublicKey(vouchee), "revoked", Now0)},
     {RowInState(PublicKey(vouchee), PublicKey(voucher), "active", Now0)}}

InitRace ==
    /\ now = Now0
    /\ identities = {PublicKey(k) : k \in KeyPairs}
    /\ \E voucher \in KeyPairs, vouchee \in KeyPairs, days \in [Requests -> ExpiresChoices] :
          /\ voucher # vouchee
          /\ vouches \in RaceStores(voucher, vouchee)
          /\ call = [i \in Requests |->
                        [op |-> "vouch", stage |-> "sent",
                         request |-> SignedRequest(voucher, "POST", "/vouch", now, VouchBody(PublicKey(vouchee), days[i]), NoQuery)]]
    /\ resp = [i \in Requests |-> NoResp]

\* vouch, from authentication to the existence check (main.py:106-158), on
\* the store as it is now: a request that fails a check is answered, one
\* that passes goes on to the insert.
VouchCheck(i) ==
    /\ call[i].stage = "sent"
    /\ LET checked == vouch_handler(identities, vouches, now, call[i].request)
       IN  IF InLog("insert_vouch", checked.log)
           THEN /\ call' = [call EXCEPT ![i].stage = "checked"]
                /\ UNCHANGED resp
           ELSE /\ call' = [call EXCEPT ![i].stage = "done"]
                /\ resp' = [resp EXCEPT ![i] = [op |-> "vouch", status |-> checked.status, detail |-> checked.detail,
                                                log |-> checked.log, content |-> checked.content]]
    /\ UNCHANGED <<now, identities, vouches>>

\* vouch, from the expiry calculation to the commit (main.py:160-176), on
\* the store as it is now.
VouchCommit(i) ==
    /\ call[i].stage = "checked"
    /\ LET auth == verify_auth_headers(now, call[i].request)
           body == ParseVouchRequest(call[i].request.body)
           row == Vouch(auth.public_key, body.vouchee_public_key, now, vouch_expires_at(now, body.expires_in_days))
           inserted == InsertVouch(vouches, row)
           log == auth.log \o <<"validate", "select_identity", "select_identity", "select_vouch", "insert_vouch", "commit">>
       IN  /\ vouches' = IF inserted.raised THEN vouches ELSE inserted.value
           /\ resp' = [resp EXCEPT ![i] = [op |-> "vouch", status |-> IF inserted.raised THEN 500 ELSE 200,
                                           detail |-> IF inserted.raised THEN inserted.exc ELSE "",
                                           log |-> log, content |-> None]]
    /\ call' = [call EXCEPT ![i].stage = "done"]
    /\ UNCHANGED <<now, identities>>

NextRace == (\E i \in Requests : VouchCheck(i)) \/ (\E i \in Requests : VouchCommit(i))

SpecRace == InitRace /\ [][NextRace]_vars

\* The requests that were answered with success.
Succeeded == {i \in Requests : resp[i] # NoResp /\ resp[i].status = 200}

\* C35: under any interleaving of concurrent POST /vouch requests of one
\* voucher for one vouchee, each doing its existence check before either
\* commits, the store holds at most one vouch of the pair in every state
\* and at most one of the requests is answered with success.
C35_OneRowOneSuccess ==
    /\ PrimaryKeyUnique(vouches)
    /\ Cardinality(Succeeded) <= 1

\* Two requests passed the existence check before either committed; one was
\* answered with success and the other with the error of the primary key.
C35_Witness ==
    /\ \A i \in Requests : call[i].stage = "done"
    /\ Cardinality(Succeeded) = 1
    /\ \E i \in Requests :
          /\ resp[i].status = 500
          /\ resp[i].detail = "IntegrityError"
    /\ Cardinality(vouches) = 1

====
